---- MODULE Spec2Model ----
(***************************************************************************)
(* A model of the HubSpot form usability enhancement layer                 *)
(* (src/index.js = part_000, src/hubspot-forms.js = part_001).             *)
(*                                                                         *)
(* Spec      : one set-up form; step validation, the navigation click      *)
(*             handler, the error summary and the field listeners.         *)
(* SpecLife  : module load, auto-initialisation, setupSingleForm and the   *)
(*             cleanup bundles of several forms.                           *)
(* SpecBar   : progress-bar repositioning by init, the observers and the   *)
(*             retry sweeps.                                               *)
(***************************************************************************)
EXTENDS Integers, Sequences, FiniteSets, TLC

(***************************************************************************)
(* Bounds of the model.                                                    *)
(***************************************************************************)
MaxListeners == 1
MaxHandlers == 3
MaxPending == 1
MaxForms == 2
MaxBundles == 3
MaxCalls == 2
MaxStyles == 3
MaxStyleCalls == 2

(***************************************************************************)
(* Program constants.                                                      *)
(***************************************************************************)
FALLBACK_LIMIT == 500
DEFAULT_LIMIT == 500

Steps == {1, 2}
NoStep == 0

Forms == 1..MaxForms
NoForm == 0
NoBundle == 0

(***************************************************************************)
(* Strings are sequences of one-character strings, so that trim, length    *)
(* and the regular expressions are computed and not assumed.               *)
(***************************************************************************)
Empty == << >>
Blank == <<" ">>
Word == <<"a">>
Mail == <<"a", "@", "a", ".", "a">>
Long == <<"a", "a", "a", "a">>
Code == <<"+", "1">>
Phone == <<"+", "1", " ", "5">>

TextValues == {Empty, Blank, Word}
MailValues == {Empty, Word, Mail}
AreaValues == {Empty, Word, Long}
TelValues == {Empty, Code, Phone}
AllValues == TextValues \cup MailValues \cup AreaValues \cup TelValues

IsSpace(c) == c = " "
IsDigit(c) == c \in {"0", "1", "2", "3", "4", "5", "6", "7", "8", "9"}

RECURSIVE TrimLeft(_)
TrimLeft(v) == IF v # << >> /\ IsSpace(Head(v)) THEN TrimLeft(Tail(v)) ELSE v

RECURSIVE TrimRight(_)
TrimRight(v) ==
    IF v # << >> /\ IsSpace(v[Len(v)]) THEN TrimRight(SubSeq(v, 1, Len(v) - 1)) ELSE v

\* String.prototype.trim
Trim(v) == TrimRight(TrimLeft(v))

\* an absent setting is the empty sequence, a present one <<setting>>
None == << >>
Some(x) == <<x>>

UpperLetters ==
    <<"A", "B", "C", "D", "E", "F", "G", "H", "I", "J", "K", "L", "M",
      "N", "O", "P", "Q", "R", "S", "T", "U", "V", "W", "X", "Y", "Z">>
LowerLetters ==
    <<"a", "b", "c", "d", "e", "f", "g", "h", "i", "j", "k", "l", "m",
      "n", "o", "p", "q", "r", "s", "t", "u", "v", "w", "x", "y", "z">>

LetterTo(c, from, to) ==
    IF \E i \in 1..Len(from) : from[i] = c
        THEN to[CHOOSE i \in 1..Len(from) : from[i] = c] ELSE c

\* String.prototype.toLowerCase / toUpperCase
toLowerCase(v) == [i \in 1..Len(v) |-> LetterTo(v[i], UpperLetters, LowerLetters)]
toUpperCase(v) == [i \in 1..Len(v) |-> LetterTo(v[i], LowerLetters, UpperLetters)]

\* String.prototype.split(sep) for a one-character separator
RECURSIVE Split(_, _)
Split(v, sep) ==
    IF \E i \in 1..Len(v) : v[i] = sep
        THEN LET i == CHOOSE j \in 1..Len(v) : v[j] = sep /\ \A k \in 1..(j - 1) : v[k] # sep
             IN  <<SubSeq(v, 1, i - 1)>> \o Split(SubSeq(v, i + 1, Len(v)), sep)
        ELSE <<v>>

\* String.prototype.includes
Includes(text, part) ==
    \E i \in 1..(Len(text) + 1) :
        /\ i + Len(part) - 1 <= Len(text)
        /\ SubSeq(text, i, i + Len(part) - 1) = part

DigitValue(c) ==
    CHOOSE n \in 0..9 : <<"0", "1", "2", "3", "4", "5", "6", "7", "8", "9">>[n + 1] = c

\* parseFloat of a string that starts with an unsigned whole number
RECURSIVE LeadingNumber(_, _)
LeadingNumber(v, acc) ==
    IF v # << >> /\ IsDigit(Head(v))
        THEN LeadingNumber(Tail(v), acc * 10 + DigitValue(Head(v)))
        ELSE acc
parseFloat(v) == LeadingNumber(v, 0)

(***************************************************************************)
(* FileUploadValidator: its settings.  An extension is a string; a list of *)
(* extensions is a sequence of them.                                       *)
(***************************************************************************)
PDF == <<"p", "d", "f">>
DOC == <<"d", "o", "c">>
DOCX == <<"d", "o", "c", "x">>
JPG == <<"j", "p", "g">>
JPEG == <<"j", "p", "e", "g">>
PNG == <<"p", "n", "g">>
GIF == <<"g", "i", "f">>
TXT == <<"t", "x", "t">>

\* the getters' last return statements
DefaultExtensions == <<PDF, DOC, DOCX, JPG, JPEG, PNG, GIF, TXT>>
DefaultMaxFileSize == 10 * 1024 * 1024

\* get allowedExtensions()
allowedExtensions(config, e) ==
    IF config.allowedExtensions # << >> THEN config.allowedExtensions[1]
    ELSE IF e.VITE_UPLOAD_ALLOWED_EXTENSIONS # << >>
                /\ e.VITE_UPLOAD_ALLOWED_EXTENSIONS[1] # << >>
        THEN LET parts == Split(e.VITE_UPLOAD_ALLOWED_EXTENSIONS[1], ",")
             IN  [i \in 1..Len(parts) |-> toLowerCase(Trim(parts[i]))]
    ELSE DefaultExtensions

\* get maxFileSize()
maxFileSize(config, e) ==
    IF config.maxFileSize # 0 THEN config.maxFileSize
    ELSE IF e.VITE_UPLOAD_MAX_SIZE # << >> /\ e.VITE_UPLOAD_MAX_SIZE[1] # << >>
        THEN LET size == toUpperCase(e.VITE_UPLOAD_MAX_SIZE[1])
                 number == parseFloat(size)
             IN  IF Includes(size, <<"G", "B">>) THEN number * 1024 * 1024 * 1024
                 ELSE IF Includes(size, <<"M", "B">>) THEN number * 1024 * 1024
                 ELSE IF Includes(size, <<"K", "B">>) THEN number * 1024
                 ELSE number
    ELSE DefaultMaxFileSize

\* init's "Apply configuration if provided": the two setters, each called
\* when its option is truthy
applyOptions(config, options) ==
    [allowedExtensions |-> IF options.allowedExtensions # << >>
                               THEN options.allowedExtensions
                               ELSE config.allowedExtensions,
     maxFileSize |-> IF options.maxFileSize # 0 THEN options.maxFileSize
                     ELSE config.maxFileSize]

\* the settings a host page makes: none, or png only / 1 KiB
HostExtensions == {None, Some(<<PNG>>)}
HostSizes == {0, 1024}

\* the defaultOptions initializeWithTwoPhases passes on to init
defaultOptions ==
    [allowedExtensions |-> <<<<PDF, DOC, DOCX, JPG, JPEG, PNG, GIF>>>>,
     maxFileSize |-> 10 * 1024 * 1024]

(***************************************************************************)
(* The DOM the widget renders.  A layout fixes what the widget's markup    *)
(* looks like: the fields of each step in document order, which steps have *)
(* a .hsfc-Step__Content child, in which steps the first field container   *)
(* is wrapped instead of being a direct child of the step content, which   *)
(* steps hold a non-back navigation button, whether the form has such a    *)
(* button outside every step, which steps hold a progress bar, and which   *)
(* steps hold a heading or rich text besides their fields.                 *)
(***************************************************************************)
NoLabel == <<"<no label>">>

Fld(s, tag, type, name, req, label, limit) ==
    [step |-> s, tag |-> tag, type |-> type, name |-> name, required |-> req,
     label |-> label, limit |-> limit]

Layouts ==
    << \* 1: one required text field and the progress bar in step 1
       [fields |-> << Fld(1, "input", "text", "firstname", TRUE, <<"N", " ", "*">>, 0) >>,
        content |-> {1, 2}, nested |-> {}, nav |-> {1, 2}, navOutside |-> FALSE,
        bars |-> {1}, rich |-> {}],
       \* 2: the same step 1, its row wrapped in another element, label text empty
       [fields |-> << Fld(1, "input", "text", "firstname", TRUE, << >>, 0) >>,
        content |-> {1}, nested |-> {1}, nav |-> {1}, navOutside |-> FALSE,
        bars |-> {1}, rich |-> {}],
       \* 3: a required checkbox group of two and an optional textarea
       [fields |-> << Fld(1, "input", "checkbox", "topics", TRUE, <<"T">>, 0),
                      Fld(1, "input", "checkbox", "topics", TRUE, <<"T">>, 0),
                      Fld(1, "textarea", "textarea", "message", FALSE, NoLabel, 3) >>,
        content |-> {1, 2}, nested |-> {}, nav |-> {1}, navOutside |-> FALSE,
        bars |-> {}, rich |-> {}],
       \* 4: steps without .hsfc-Step__Content, the only Next button outside the
       \* steps, step 2 a heading and the progress bar
       [fields |-> << Fld(1, "input", "tel", "phone", TRUE, <<"P">>, 0) >>,
        content |-> {}, nested |-> {}, nav |-> {}, navOutside |-> TRUE,
        bars |-> {2}, rich |-> {2}],
       \* 5: an optional email-like field and a required text field in one step
       [fields |-> << Fld(1, "input", "text", "work_email", FALSE, <<"W">>, 0),
                      Fld(1, "input", "text", "city", TRUE, <<"C", "*">>, 0) >>,
        content |-> {1}, nested |-> {}, nav |-> {1}, navOutside |-> FALSE,
        bars |-> {}, rich |-> {}],
       \* 6: a radio group of two, a checkbox group of two whose name contains
       \* "email" (a subscription choice), a checkbox alone
       \* under its name in step 1 (the name is used again in step 2) and a
       \* telephone field
       [fields |-> << Fld(1, "input", "radio", "plan", TRUE, <<"R">>, 0),
                      Fld(1, "input", "radio", "plan", TRUE, <<"R">>, 0),
                      Fld(1, "input", "checkbox", "email_topics", TRUE, <<"T">>, 0),
                      Fld(1, "input", "checkbox", "email_topics", TRUE, <<"T">>, 0),
                      Fld(1, "input", "checkbox", "agree", TRUE, <<"A">>, 0),
                      Fld(2, "input", "checkbox", "agree", TRUE, <<"A">>, 0),
                      Fld(1, "input", "tel", "phone", TRUE, <<"P">>, 0) >>,
        content |-> {1, 2}, nested |-> {}, nav |-> {1, 2}, navOutside |-> FALSE,
        bars |-> {}, rich |-> {}] >>

\* the layouts the validation gate is explored on, and the one the field
\* validator is applied to
GateLayouts == 1..5
FieldLayouts == {6}

VARIABLES
    layout,          \* index of the markup the widget rendered
    value,           \* field -> value of a text-like field
    checked,         \* field -> checked state of a checkbox or radio
    alert,           \* field -> the widget's own .hsfc-ErrorAlert of the field
    stepDisplay,     \* step -> computed display of the .hsfc-Step
    stepOpaque,      \* step -> FALSE when the widget set opacity 0 / visibility hidden
    contentDisplay,  \* step -> computed display of the .hsfc-Step__Content
    summary,         \* step -> entries of its .hsfc-CustomValidationError, << >> if none
    marker,          \* step -> data-has-error-summary
    fallback,        \* step -> the fallback class pair [step, content]
    bar,             \* step -> the step's progress bar
    fieldListeners,  \* step -> input/change/blur handler sets attached to its fields
    cache,           \* the cleanup bundle's visible-step cache
    pendingAdd,      \* pending 100 ms addFieldListeners timers
    pendingObs,      \* steps whose bar was inserted, records not yet delivered
    last,            \* the last operation the system finished, and its outcome
    noAutoInit,      \* window.HUBSPOT_FORMS_NO_AUTO_INIT when the module loaded
    readyState,      \* document.readyState
    forms,           \* the .hsfc-Form nodes in the document
    hostCalled,      \* the host page has called init or a setup function
    initializedForms,\* HubSpotFormManager.initializedForms
    formCleanupMap,  \* HubSpotFormManager.formCleanupMap: form -> bundle
    bundles,         \* the cleanup bundles created so far: [form, aborted]
    listeners,       \* the event listeners still attached: [form, kind, by]
    observers,       \* the per-form observers still connected: [form, kind, by]
    pageObservers,   \* the document-level observers still connected
    timers,          \* the pending timers: [name, form, by]
    setupCalls,      \* form -> calls of setupSingleForm so far
    stylesRemoved,   \* removeHubSpotFormStyles has swept the document
    styleDoc,        \* the style elements with data-hsfc-id in the document
    styleObs,        \* per removeHubSpotFormStyles call: its observer and timer
    calc,            \* the last call of a validator function: [fn, arg, out]
    fileConfig,      \* FileUploadValidator._config
    env,             \* import.meta.env as the build fixed it
    navBare,         \* the navigation buttons rendered after the set-up: the
                     \* steps they sit in, NoStep for one outside every step
    areaDom,         \* the elements of a textarea's field container
    areaCounters     \* a textarea, its character counters and its listeners

domVars == <<value, checked, alert, stepDisplay, stepOpaque, contentDisplay,
             summary, marker, fallback, bar>>
gateVars == <<layout, value, checked, alert, stepDisplay, stepOpaque, contentDisplay,
              summary, marker, fallback, bar, fieldListeners, cache, pendingAdd,
              pendingObs, last>>
managerVars == <<initializedForms, formCleanupMap, bundles, listeners, observers,
                 pageObservers, timers, setupCalls, stylesRemoved>>
pageVars == <<noAutoInit, readyState, forms, hostCalled>>
auxVars == <<styleDoc, styleObs, calc, fileConfig, env, navBare, areaDom,
                areaCounters>>
vars == <<gateVars, managerVars, pageVars, auxVars>>

NoCalc == [fn |-> "none", arg |-> << >>, out |-> << >>]

\* _config: { allowedExtensions: null, maxFileSize: null }; a size of 0 and
\* null are both falsy wherever the size is read
NoConfig == [allowedExtensions |-> None, maxFileSize |-> 0]

\* a build without VITE_UPLOAD_ALLOWED_EXTENSIONS and VITE_UPLOAD_MAX_SIZE
NoEnv == [VITE_UPLOAD_ALLOWED_EXTENSIONS |-> None, VITE_UPLOAD_MAX_SIZE |-> None]

\* no textarea field under observation
NoAreaDom == [shape |-> "none"]
NoCounters == [calls |-> 0]

\* no style element of the widget, no sweep under way, no validator called,
\* no upload setting made
AuxIdle ==
    /\ styleDoc = {} /\ styleObs = << >> /\ calc = NoCalc
    /\ fileConfig = NoConfig /\ env = NoEnv
    /\ navBare = {}
    /\ areaDom = NoAreaDom /\ areaCounters = NoCounters

L == Layouts[layout]
Fields == 1..Len(L.fields)
F(f) == L.fields[f]
FieldsOf(s) == {f \in Fields : F(f).step = s}

IsGroupType(f) == F(f).type \in {"checkbox", "radio"}
IsTextLike(f) == F(f).type \in {"text", "email", "textarea"}

(***************************************************************************)
(* FieldValidator                                                          *)
(***************************************************************************)
\* container.querySelectorAll(`input[name="${field.name}"]`)
getFieldGroup(f, s) ==
    {g \in FieldsOf(s) : F(g).tag = "input" /\ F(g).name = F(f).name}

\* the mutant of _validateCheckboxField that looks at the field alone
checkboxOwnState(f, s) == checked[f]

_validateCheckboxField(f, s) ==
    IF Cardinality(getFieldGroup(f, s)) > 1
        THEN \E g \in getFieldGroup(f, s) : checked[g]
        ELSE checked[f]

_validateRadioField(f, s) == \E g \in getFieldGroup(f, s) : checked[g]

\* /^\+\d{0,3}$/
MatchesPlusDigits(v) ==
    /\ Len(v) >= 1
    /\ v[1] = "+"
    /\ Len(v) <= 4
    /\ \A i \in 2..Len(v) : IsDigit(v[i])

_validateTelField(f) ==
    LET v == Trim(value[f])
    IN  v # << >> /\ ~MatchesPlusDigits(v) /\ v # <<"+">>

\* parseInt(field.getAttribute('data-character-limit')) || fallback
DeclaredLimit(f, fallbackLimit) == IF F(f).limit > 0 THEN F(f).limit ELSE fallbackLimit

_validateTextBasedField(f) ==
    LET hasContent == value[f] # << >> /\ Trim(value[f]) # << >>
    IN  IF F(f).tag = "textarea"
            THEN hasContent /\ Len(value[f]) <= DeclaredLimit(f, FALLBACK_LIMIT)
            ELSE hasContent

isFieldValid(f, s) ==
    CASE F(f).type = "checkbox" -> _validateCheckboxField(f, s)
      [] F(f).type = "radio" -> _validateRadioField(f, s)
      [] F(f).type = "tel" -> _validateTelField(f)
      [] OTHER -> _validateTextBasedField(f)

isFieldInvalid(f, s) == ~isFieldValid(f, s)

needsValidation(f, s) == isFieldInvalid(f, s)

(***************************************************************************)
(* CharacterLimitValidator: the two queries the step validator uses.       *)
(***************************************************************************)
hasCharacterLimitError(f) == Len(value[f]) > DeclaredLimit(f, DEFAULT_LIMIT)

(***************************************************************************)
(* HubSpotFormValidator                                                    *)
(***************************************************************************)
\* a non-previous, non-back button of the step's .hsfc-NavigationRow
findNavigationButton(s) == s \in L.nav

\* isElementVisible of the widget's own error alert of field f: it has a box
\* only while its step is displayed
AlertVisibleIn(al, f) == al[f] = "shown" /\ stepDisplay[F(f).step] # "none"

AlertVisible(f) == AlertVisibleIn(alert, f)

\* isElementVisible of the step's error summary
SummaryVisible(s) == summary[s] # << >> /\ stepDisplay[s] # "none"

\* the fields of step s in document order
RECURSIVE FieldSeqFrom(_, _)
FieldSeqFrom(s, f) ==
    IF f > Len(L.fields) THEN << >>
    ELSE (IF F(f).step = s THEN <<f>> ELSE << >>) \o FieldSeqFrom(s, f + 1)

FieldSeq(s) == FieldSeqFrom(s, 1)

\* step.querySelectorAll(REQUIRED_FIELD_SELECTOR)
RequiredFields(s) == SelectSeq(FieldSeq(s), LAMBDA f : F(f).required)

\* the processedFieldGroups filter: the first field of every checkbox/radio name
RECURSIVE DedupeGroups(_, _)
DedupeGroups(fs, processed) ==
    IF fs = << >> THEN << >>
    ELSE LET f == Head(fs)
         IN  IF IsGroupType(f) /\ F(f).name \in processed
                 THEN DedupeGroups(Tail(fs), processed)
                 ELSE <<f>> \o DedupeGroups(Tail(fs),
                          IF IsGroupType(f) THEN processed \cup {F(f).name}
                                            ELSE processed)

\* Array.from(steps).find(step => display/visibility/opacity are not hidden)
StepIsVisible(s) == stepDisplay[s] # "none" /\ stepOpaque[s]

RECURSIVE FindVisibleFrom(_)
FindVisibleFrom(s) ==
    IF s \notin Steps THEN NoStep
    ELSE IF StepIsVisible(s) THEN s ELSE FindVisibleFrom(s + 1)

\* validateVisibleStep without its visible-error check
validateIgnoringErrors ==
    LET visibleStep == FindVisibleFrom(1)
    IN  IF visibleStep = NoStep THEN FALSE
        ELSE IF ~findNavigationButton(visibleStep) THEN FALSE
        ELSE \A f \in FieldsOf(visibleStep) :
                 F(f).required => isFieldValid(f, visibleStep)

validateVisibleStep ==
    LET visibleStep == FindVisibleFrom(1)
    IN  IF visibleStep = NoStep THEN FALSE
        ELSE IF ~findNavigationButton(visibleStep) THEN FALSE
        ELSE IF \/ \E f \in FieldsOf(visibleStep) : AlertVisible(f)
                \/ SummaryVisible(visibleStep) THEN FALSE
        ELSE IF RequiredFields(visibleStep) = << >> THEN TRUE
        ELSE LET fieldsToValidate == DedupeGroups(RequiredFields(visibleStep), {})
             IN  \A i \in 1..Len(fieldsToValidate) :
                     isFieldValid(fieldsToValidate[i], visibleStep)

\* label.textContent.trim().replace(/\s*\*\s*$/, '')
StripAsterisk(t) ==
    LET u == Trim(t)
    IN  IF u # << >> /\ u[Len(u)] = "*" THEN TrimRight(SubSeq(u, 1, Len(u) - 1)) ELSE u

\* the label element found for the field, else placeholder / aria-label / name
getFieldLabel(f) ==
    IF F(f).label # NoLabel THEN StripAsterisk(F(f).label)
    ELSE IF F(f).name # "" THEN <<F(f).name>> ELSE <<"Unknown field">>

\* this.getFieldLabel(field) || `Field "${field.name || field.id || 'unknown'}"`
ResolvedLabel(f) ==
    IF getFieldLabel(f) # << >> THEN getFieldLabel(f)
    ELSE <<"Field ", IF F(f).name # "" THEN F(f).name ELSE "unknown">>

\* /^[^\s@]+@[^\s@]+\.[^\s@]+$/ on the trimmed value
isValidEmail(v) ==
    LET e == Trim(v)
        Plain(i, j) == i <= j /\ \A k \in i..j : ~IsSpace(e[k]) /\ e[k] # "@"
    IN  \E a \in 1..Len(e) : \E d \in 1..Len(e) :
            /\ e[a] = "@" /\ e[d] = "." /\ a < d
            /\ Plain(1, a - 1) /\ Plain(a + 1, d - 1) /\ Plain(d + 1, Len(e))

EmailNames == {"email", "work_email", "email_topics"}

\* field.type === 'email' || field.name?.toLowerCase().includes('email')
IsEmailLike(f) == F(f).type = "email" \/ F(f).name \in EmailNames

\* field.value of a checkbox or radio is its value attribute, never empty
\* ("on" when the markup gives none)
FieldValue(f) == IF IsGroupType(f) THEN <<"o", "n">> ELSE value[f]

HasValue(f) == IF IsGroupType(f) THEN TRUE ELSE value[f] # << >> /\ Trim(value[f]) # << >>

\* findFieldForError: the widget renders a field's alert inside the field's
\* container, whose first input is the first member of a group
findFieldForError(f) ==
    IF IsGroupType(f)
        THEN CHOOSE g \in getFieldGroup(f, F(f).step) :
                 \A h \in getFieldGroup(f, F(f).step) : g <= h
        ELSE f

Already(list, f) == \E i \in 1..Len(list) : list[i].field = f

Entry(f, kind) == [field |-> f, label |-> ResolvedLabel(f), kind |-> kind]

\* `${fieldLabel}: Must be ${characterLimit} characters or less (currently
\* ${overBy} over)`, the description of a textarea's entry; null (<< >>) when
\* the value is within the limit
getCharacterLimitErrorMessage(f) ==
    LET characterLimit == DeclaredLimit(f, DEFAULT_LIMIT)
        currentLength == Len(value[f])
        overBy == currentLength - characterLimit
        fieldLabel == IF getFieldLabel(f) # << >> THEN getFieldLabel(f)
                      ELSE <<"Text area">>
    IN  IF currentLength > characterLimit
            THEN fieldLabel \o <<": Must be ", characterLimit,
                                 " characters or less (currently ", overBy, " over)">>
            ELSE << >>

\* visible widget-native error elements, in document order
RECURSIVE NativeErrors(_, _)
NativeErrors(al, fs) ==
    IF fs = << >> THEN << >>
    ELSE (IF AlertVisibleIn(al, Head(fs))
              THEN <<Entry(findFieldForError(Head(fs)), "native")>> ELSE << >>)
         \o NativeErrors(al, Tail(fs))

\* textareas over their character limit
RECURSIVE AddLimitErrors(_, _)
AddLimitErrors(fs, acc) ==
    IF fs = << >> THEN acc
    ELSE LET f == Head(fs)
         IN  AddLimitErrors(Tail(fs),
                 IF F(f).tag = "textarea" /\ hasCharacterLimitError(f) /\ ~Already(acc, f)
                     THEN Append(acc, Entry(f, "limit")) ELSE acc)

\* invalid required fields, one per group name
RECURSIVE AddRequiredErrors(_, _, _)
AddRequiredErrors(fs, s, acc) ==
    IF fs = << >> THEN acc
    ELSE LET f == Head(fs)
         IN  AddRequiredErrors(Tail(fs), s,
                 IF isFieldInvalid(f, s) /\ ~Already(acc, f)
                     THEN Append(acc, Entry(f, "required")) ELSE acc)

\* non-empty fields failing the email shape
RECURSIVE AddFormatErrors(_, _)
AddFormatErrors(fs, acc) ==
    IF fs = << >> THEN acc
    ELSE LET f == Head(fs)
         IN  AddFormatErrors(Tail(fs),
                 IF /\ ~Already(acc, f) /\ HasValue(f)
                    /\ IsEmailLike(f) /\ ~isValidEmail(FieldValue(f))
                     THEN Append(acc, Entry(f, "format")) ELSE acc)

\* empty email-like fields
RECURSIVE AddEmptyEmails(_, _)
AddEmptyEmails(fs, acc) ==
    IF fs = << >> THEN acc
    ELSE LET f == Head(fs)
         IN  AddEmptyEmails(Tail(fs),
                 IF ~Already(acc, f) /\ ~HasValue(f) /\ IsEmailLike(f)
                     THEN Append(acc, Entry(f, "required")) ELSE acc)

getFieldsWithErrorsIn(al, s) ==
    LET fs == FieldSeq(s)
        a == NativeErrors(al, fs)
        b == AddLimitErrors(fs, a)
        c == AddRequiredErrors(DedupeGroups(RequiredFields(s), {}), s, b)
        d == AddFormatErrors(fs, c)
    IN  AddEmptyEmails(fs, d)

getFieldsWithErrors(s) == getFieldsWithErrorsIn(alert, s)

(***************************************************************************)
(* The per-step state the summary code reads and writes: the summary, the  *)
(* marker attribute and the fallback class pair.                           *)
(***************************************************************************)
StepUI(s) == [summary |-> summary[s], marker |-> marker[s], fb |-> fallback[s]]

NoClasses == [step |-> FALSE, content |-> FALSE]
BothClasses == [step |-> TRUE, content |-> TRUE]

\* currentStep.querySelector('.hsfc-ProgressBar--repositioned')
BarInStep(b) == b.pos \notin {"absent", "detached"}

HasRepositionedBarIn(b) == BarInStep(b) /\ b.cls

HasRepositionedBar(s) == HasRepositionedBarIn(bar[s])

\* addFlexboxFallbackClasses, given whether the step holds a summary
addFlexboxFallbackClasses(s, hasSummary, fb) ==
    IF hasSummary \/ HasRepositionedBar(s) THEN BothClasses ELSE fb

\* removeFlexboxFallbackClasses, given whether the step holds a summary
removeFlexboxFallbackClasses(s, hasSummary, fb) ==
    IF ~hasSummary /\ ~HasRepositionedBar(s) THEN NoClasses ELSE fb

\* findFirstFormField(stepContent) # null
HasFirstFormField(s) == FieldsOf(s) # {}

\* stepContent.insertBefore(node, findFirstFormField(stepContent)) raises
\* NotFoundError when the container found is not a child of stepContent
InsertBeforeFirstFieldThrows(s) == HasFirstFormField(s) /\ s \in L.nested

\* computed display of (step.querySelector('.hsfc-Step__Content') || step)
StepContentDisplay(s) == IF s \in L.content THEN contentDisplay[s] ELSE stepDisplay[s]

NeedsFlex(s) == StepContentDisplay(s) # "flex"

\* the three live conditions checkAndRemoveErrorSummary re-evaluates
RemovalBlocked(al, s) ==
    LET hasVisibleErrors == \E f \in FieldsOf(s) : AlertVisibleIn(al, f)
        req == DedupeGroups(RequiredFields(s), {})
        hasEmptyRequired == \E i \in 1..Len(req) : isFieldInvalid(req[i], s)
        hasCharacterLimitErrors ==
            \E f \in FieldsOf(s) : F(f).tag = "textarea" /\ hasCharacterLimitError(f)
    IN  hasVisibleErrors \/ hasEmptyRequired \/ hasCharacterLimitErrors

\* checkAndRemoveErrorSummary that never removes the summary
checkAndKeep(blocked, s, u) == u

\* checkAndRemoveErrorSummary that removes the summary and leaves the marker
checkAndRemoveLeavingMarker(blocked, s, u) ==
    IF u.summary = << >> THEN u
    ELSE IF ~blocked
        THEN [summary |-> << >>, marker |-> u.marker,
              fb |-> removeFlexboxFallbackClasses(s, FALSE, u.fb)]
        ELSE u

\* checkAndRemoveErrorSummary, given what the three conditions evaluate to
checkAndRemoveGiven(blocked, s, u) ==
    IF u.summary = << >> THEN u
    ELSE IF ~blocked
        THEN [summary |-> << >>, marker |-> FALSE,
              fb |-> removeFlexboxFallbackClasses(s, FALSE, u.fb)]
        ELSE u

checkAndRemoveErrorSummaryIn(al, s, u) == checkAndRemoveGiven(RemovalBlocked(al, s), s, u)

removeValidationErrorIn(al, s, u) == checkAndRemoveErrorSummaryIn(al, s, u)

\* showValidationError: the new step state, whether the step content was
\* switched to flex, and whether the insertion raised
showValidationErrorIn(al, s, u) ==
    LET errs == getFieldsWithErrorsIn(al, s)
        cleared == [u EXCEPT !.summary = << >>]
    IN  IF errs = << >> THEN [ui |-> cleared, flex |-> FALSE, threw |-> FALSE]
        ELSE LET fb == addFlexboxFallbackClasses(s, FALSE, u.fb)
                 throws == ~HasRepositionedBar(s) /\ InsertBeforeFirstFieldThrows(s)
             IN  IF throws
                     THEN [ui |-> [cleared EXCEPT !.fb = fb],
                           flex |-> NeedsFlex(s), threw |-> TRUE]
                     ELSE [ui |-> [summary |-> errs, marker |-> TRUE, fb |-> fb],
                           flex |-> NeedsFlex(s), threw |-> FALSE]

(***************************************************************************)
(* The cleanup bundle's visible-step cache.                                *)
(***************************************************************************)
RECURSIVE FindDisplayedFrom(_, _)
FindDisplayedFrom(disp, s) ==
    IF s \notin Steps THEN NoStep
    ELSE IF disp[s] # "none" THEN s ELSE FindDisplayedFrom(disp, s + 1)

\* cleanup.getVisibleStep(): the cache after the call; .step is what it returns
getVisibleStep(c, disp) ==
    IF ~c.valid \/ c.step = NoStep
        THEN [valid |-> TRUE, step |-> FindDisplayedFrom(disp, 1)]
        ELSE c

invalidateCache(c) == [valid |-> FALSE, step |-> NoStep]

(***************************************************************************)
(* Progress bars.  A bar is [pos, marked, cls, moves]: where it sits,      *)
(* data-repositioned, the hsfc-ProgressBar--repositioned class, and how    *)
(* often the system detached it.                                           *)
(***************************************************************************)
NoBar == [pos |-> "absent", marked |-> FALSE, cls |-> FALSE, moves |-> 0]
WidgetBar == [pos |-> "orig", marked |-> FALSE, cls |-> FALSE, moves |-> 0]

\* the DOM state a repositioning sweep threads through its forEach
SweepState == [bar |-> bar, fb |-> fallback, cdisp |-> contentDisplay,
               sdisp |-> stepDisplay, threw |-> FALSE]

SetFlex(st, s) ==
    IF s \in L.content
        THEN [st EXCEPT !.cdisp[s] = "flex"]
        ELSE [st EXCEPT !.sdisp[s] = "flex"]

\* repositionProgressBar without its data-repositioned check
repositionUnmarked(st, s) ==
    LET b == st.bar[s]
    IN  IF b.pos = "absent" \/ b.pos = "detached" THEN st
        ELSE LET removed == [pos |-> "detached", marked |-> TRUE, cls |-> FALSE,
                             moves |-> b.moves + 1]
                 flexed == SetFlex(st, s)
                 classed == [flexed EXCEPT !.fb[s] =
                                addFlexboxFallbackClasses(s, summary[s] # << >>, @)]
             IN  IF InsertBeforeFirstFieldThrows(s)
                     THEN [classed EXCEPT !.bar[s] = removed, !.threw = TRUE]
                     ELSE [classed EXCEPT !.bar[s] =
                              [removed EXCEPT !.cls = TRUE,
                                  !.pos = IF HasFirstFormField(s) THEN "beforeField"
                                                                  ELSE "end"]]

\* HubSpotFormManager.repositionProgressBar on the bar of step s
repositionProgressBar(st, s) ==
    LET b == st.bar[s]
    IN  IF b.pos = "absent" \/ b.pos = "detached" \/ b.marked THEN st
        ELSE LET removed == [pos |-> "detached", marked |-> TRUE, cls |-> FALSE,
                             moves |-> b.moves + 1]
                 flexed == SetFlex(st, s)
                 classed == [flexed EXCEPT !.fb[s] =
                                addFlexboxFallbackClasses(s, summary[s] # << >>, @)]
             IN  IF InsertBeforeFirstFieldThrows(s)
                     THEN [classed EXCEPT !.bar[s] = removed, !.threw = TRUE]
                     ELSE [classed EXCEPT !.bar[s] =
                              [removed EXCEPT !.cls = TRUE,
                                  !.pos = IF HasFirstFormField(s) THEN "beforeField"
                                                                  ELSE "end"]]

\* existingProgressBars.forEach(bar => this.repositionProgressBar(bar, form)):
\* an exception leaves the remaining bars untouched
RECURSIVE RepositionFrom(_, _)
RepositionFrom(st, s) ==
    IF s \notin Steps \/ st.threw THEN st
    ELSE RepositionFrom(repositionProgressBar(st, s), s + 1)

\* stepContent.firstChild once the bar is detached: a heading, rich text or
\* the navigation row
HasOtherChild(s) == s \in L.rich \/ s \in L.nav

\* one round of the forEach in init's positionElementsImmediately
positionBar(st, s) ==
    LET b == st.bar[s]
    IN  IF ~BarInStep(b) \/ b.marked THEN st
        ELSE LET removed == [pos |-> "detached", marked |-> TRUE, cls |-> FALSE,
                             moves |-> b.moves + 1]
             IN  IF summary[s] # << >>
                     THEN [st EXCEPT !.bar[s] =
                              [removed EXCEPT !.pos = "afterSummary", !.cls = TRUE]]
                 ELSE IF InsertBeforeFirstFieldThrows(s)
                     THEN [st EXCEPT !.bar[s] = removed, !.threw = TRUE]
                 ELSE [st EXCEPT !.bar[s] =
                          [removed EXCEPT !.cls = TRUE,
                              !.pos = IF HasFirstFormField(s) THEN "beforeField"
                                      ELSE IF HasOtherChild(s) THEN "first"
                                      ELSE "end"]]

\* positionElementsImmediately(): every bar of the document, up to an exception
RECURSIVE positionElementsImmediately(_, _)
positionElementsImmediately(st, s) ==
    IF s \notin Steps \/ st.threw THEN st
    ELSE positionElementsImmediately(positionBar(st, s), s + 1)

\* the progress-bar observer's callback over the added bars
RECURSIVE RepositionAdded(_, _, _)
RepositionAdded(st, added, s) ==
    IF s \notin Steps \/ st.threw THEN st
    ELSE RepositionAdded(IF s \in added THEN repositionProgressBar(st, s) ELSE st,
                         added, s + 1)

\* the bars a task inserted into the document: what the observers are told
Inserted(st) == {s \in Steps : st.bar[s] # bar[s] /\ BarInStep(st.bar[s])}

Min(a, b) == IF a < b THEN a ELSE b

(***************************************************************************)
(* HubSpotFormManager: cleanup bundles and form set-up.  The operators     *)
(* thread the manager's state as a record m.                               *)
(***************************************************************************)
Manager ==
    [initializedForms |-> initializedForms, formCleanupMap |-> formCleanupMap,
     bundles |-> bundles, listeners |-> listeners, observers |-> observers,
     pageObservers |-> pageObservers, timers |-> timers, setupCalls |-> setupCalls,
     stylesRemoved |-> stylesRemoved]

\* the listeners setupSingleForm attaches, and what each is registered under
ListenerKinds == {"navigation", "field", "textInput", "textarea", "dropdown",
                  "phone", "outsideClick", "file"}

Registration(kind) ==
    CASE kind = "outsideClick" -> "globalListeners"
      [] kind = "file" -> "none"
      [] OTHER -> "signal"

\* the observers setupSingleForm connects; each is pushed to cleanup.observers
ObserverKinds == {"structural", "progressBar", "characterLimit", "preemptive"}

\* the retry sweeps setupProgressBarRepositioning schedules
SetupTimers == {"sweep100", "sweep1000"}

GlobalTimer(n) == [name |-> n, form |-> NoForm, by |-> NoBundle]

\* createFormCleanup(formContainer)
createFormCleanup(m, f) ==
    [m EXCEPT !.bundles = Append(@, [form |-> f, aborted |-> FALSE]),
              !.formCleanupMap[f] = Len(m.bundles) + 1]

getFormCleanup(m, f) == m.formCleanupMap[f]

\* cleanup.destroy() of bundle b
destroy(m, b) ==
    [m EXCEPT !.bundles[b].aborted = TRUE,
              !.listeners = {l \in @ : l.by # b \/ Registration(l.kind) = "none"},
              !.observers = {o \in @ : o.by # b}]

\* what the body of setupSingleForm creates for form f under bundle b
SetUpUnder(m, f, b) ==
    [m EXCEPT !.initializedForms = @ \cup {f},
              !.listeners = @ \cup {[form |-> f, kind |-> k, by |-> b] :
                                       k \in ListenerKinds},
              !.observers = @ \cup {[form |-> f, kind |-> k, by |-> b] :
                                       k \in ObserverKinds},
              !.timers = @ \cup {[name |-> n, form |-> f, by |-> b] :
                                    n \in SetupTimers}]

CountCall(m, f) == [m EXCEPT !.setupCalls[f] = Min(@ + 1, MaxCalls)]

\* setupSingleForm without the initializedForms check
setupSingleFormUnguarded(m, f) ==
    LET existingCleanup == getFormCleanup(m, f)
        torn == IF existingCleanup # NoBundle THEN destroy(CountCall(m, f), existingCleanup)
                                              ELSE CountCall(m, f)
        made == createFormCleanup(torn, f)
    IN  SetUpUnder(made, f, getFormCleanup(made, f))

\* setupSingleForm that leaves an existing bundle as it is
setupSingleFormKeepingOld(m, f) ==
    IF f \in m.initializedForms THEN CountCall(m, f)
    ELSE LET made == createFormCleanup(CountCall(m, f), f)
         IN  SetUpUnder(made, f, getFormCleanup(made, f))

\* HubSpotFormManager.setupSingleForm(formContainer)
setupSingleForm(m, f) ==
    IF f \in m.initializedForms THEN CountCall(m, f)
    ELSE LET existingCleanup == getFormCleanup(m, f)
             torn == IF existingCleanup # NoBundle
                         THEN destroy(CountCall(m, f), existingCleanup)
                         ELSE CountCall(m, f)
             made == createFormCleanup(torn, f)
         IN  SetUpUnder(made, f, getFormCleanup(made, f))

\* removeHubSpotFormStyles(): the sweep, its observer and its 10 s timer
removeHubSpotFormStyles(m) ==
    [m EXCEPT !.stylesRemoved = TRUE,
              !.pageObservers = @ \cup {"styles"},
              !.timers = @ \cup {GlobalTimer("stylesOff")}]

\* hubspotForms.forEach(formContainer => this.setupSingleForm(formContainer))
RECURSIVE SetupEach(_, _, _)
SetupEach(m, fs, f) ==
    IF f > MaxForms THEN m
    ELSE SetupEach(IF f \in fs THEN setupSingleForm(m, f) ELSE m, fs, f + 1)

setupGlobalObserver(m) == [m EXCEPT !.pageObservers = @ \cup {"global"}]

\* HubSpotFormManager.setupAllForms() with the forms fs in the document
setupAllForms(m, fs) ==
    setupGlobalObserver(IF fs # {} THEN SetupEach(removeHubSpotFormStyles(m), fs, 1)
                                   ELSE m)

\* the DOMContentLoaded handler of hubspot-forms.js
OnDOMContentLoaded(m, fs) ==
    IF fs # {} THEN setupAllForms(m, fs)
    ELSE [m EXCEPT !.pageObservers = @ \cup {"retry"},
                   !.timers = @ \cup {GlobalTimer("retryOff")}]

\* the callback init hands to whenSafeToInitialize
WhenSafeCallback(m, fs) ==
    IF fs # {} THEN setupAllForms(m, fs)
    ELSE [m EXCEPT !.pageObservers = @ \cup {"dynamic"},
                   !.timers = @ \cup {GlobalTimer("dynamicOff")}]

\* the document-level observers' callbacks for a form node f added to the
\* document that now holds the forms fs, in the order the observers were made
OnFormAdded(m, fs, f) ==
    LET a == IF "retry" \in m.pageObservers
                 THEN setupAllForms(removeHubSpotFormStyles(m), fs) ELSE m
        b == IF "global" \in m.pageObservers
                 THEN setupSingleForm(removeHubSpotFormStyles(a), f) ELSE a
    IN  IF "dynamic" \in m.pageObservers
            THEN setupAllForms([b EXCEPT !.pageObservers = @ \ {"dynamic"}], fs)
            ELSE b

NoOp == [op |-> "none", step |-> NoStep, prevented |-> FALSE, stopped |-> FALSE,
         valid |-> FALSE, threw |-> FALSE, early |-> FALSE]

NoManager ==
    [initializedForms |-> {}, formCleanupMap |-> [f \in Forms |-> NoBundle],
     bundles |-> << >>, listeners |-> {}, observers |-> {}, pageObservers |-> {},
     timers |-> {}, setupCalls |-> [f \in Forms |-> 0], stylesRemoved |-> FALSE]

SetManager(m) ==
    /\ initializedForms' = m.initializedForms
    /\ formCleanupMap' = m.formCleanupMap
    /\ bundles' = m.bundles
    /\ listeners' = m.listeners
    /\ observers' = m.observers
    /\ pageObservers' = m.pageObservers
    /\ timers' = m.timers
    /\ setupCalls' = m.setupCalls
    /\ stylesRemoved' = m.stylesRemoved

\* form 1 as setupAllForms leaves it on a loaded page
SetUpPage(m) ==
    /\ noAutoInit = FALSE
    /\ readyState = "complete"
    /\ forms = {1}
    /\ hostCalled = FALSE
    /\ initializedForms = m.initializedForms
    /\ formCleanupMap = m.formCleanupMap
    /\ bundles = m.bundles
    /\ listeners = m.listeners
    /\ observers = m.observers
    /\ pageObservers = m.pageObservers
    /\ setupCalls = m.setupCalls
    /\ stylesRemoved = m.stylesRemoved

\* the form's fields and steps as the widget rendered them
FreshForm ==
    /\ value = [f \in Fields |-> Empty]
    /\ checked = [f \in Fields |-> FALSE]
    /\ alert = [f \in Fields |-> "none"]
    /\ stepOpaque = [s \in Steps |-> TRUE]
    /\ summary = [s \in Steps |-> << >>]
    /\ marker = [s \in Steps |-> FALSE]
    /\ fallback = [s \in Steps |-> NoClasses]
    /\ fieldListeners = [s \in Steps |-> IF s = 1 THEN 1 ELSE 0]
    /\ cache = [valid |-> TRUE, step |-> 1]
    /\ pendingAdd = 0
    /\ pendingObs = {}
    /\ last = NoOp

\* a bar after the retry sweeps of the set-up
SweptBar(s) ==
    IF s \notin L.bars THEN NoBar
    ELSE IF InsertBeforeFirstFieldThrows(s)
        THEN [pos |-> "detached", marked |-> TRUE, cls |-> FALSE, moves |-> 1]
        ELSE [pos |-> IF HasFirstFormField(s) THEN "beforeField" ELSE "end",
              marked |-> TRUE, cls |-> TRUE, moves |-> 1]

\* Spec starts after setupSingleForm and its two retry sweeps have run
Init ==
    /\ layout \in GateLayouts
    /\ FreshForm
    /\ stepDisplay = [s \in Steps |->
           IF s \in L.bars \ L.content THEN "flex"
           ELSE IF s = 1 THEN "block" ELSE "none"]
    /\ contentDisplay = [s \in Steps |->
           IF s \in L.bars \cap L.content THEN "flex" ELSE "block"]
    /\ bar = [s \in Steps |-> SweptBar(s)]
    /\ timers = {}
    /\ SetUpPage(setupAllForms(NoManager, {1}))
    /\ AuxIdle

\* the structural observer's reaction to the mutations one task made: a
\* style mutation on a step invalidates the cache, re-reads the visible step
\* (initializeButtonState) and schedules addFieldListeners
ObserverReacts(c, styleOnStep) ==
    /\ cache' = IF styleOnStep THEN getVisibleStep(invalidateCache(c), stepDisplay')
                               ELSE c
    /\ pendingAdd' = IF styleOnStep THEN Min(pendingAdd + 1, MaxPending) ELSE pendingAdd

SetStepUI(s, u) ==
    /\ summary' = [summary EXCEPT ![s] = u.summary]
    /\ marker' = [marker EXCEPT ![s] = u.marker]
    /\ fallback' = [fallback EXCEPT ![s] = u.fb]

\* no mutation record waits for the observers: a new task may start
Quiet == pendingObs = {}

\* the fields triggerFieldValidations replays events on
Poked(s) ==
    LET req == DedupeGroups(RequiredFields(s), {})
    IN  {req[i] : i \in {j \in 1..Len(req) : needsValidation(req[j], s)}}
        \cup {f \in FieldsOf(s) :
                 ~F(f).required /\ (F(f).type = "tel" \/ IsEmailLike(f))}

(***************************************************************************)
(* handleNextButtonClick for a click on a non-back navigation button that  *)
(* sits in step t, or outside every step (t = NoStep).  While the events   *)
(* are replayed the widget may show its own alert on any replayed field    *)
(* (R), and the system's own field listeners hear the replayed events.     *)
(* last.valid is what validateVisibleStep() returns at click time.         *)
(***************************************************************************)
handleNextButtonClick(t) ==
    LET c1 == IF t = NoStep THEN getVisibleStep(cache, stepDisplay) ELSE cache
        s == IF t # NoStep THEN t ELSE c1.step
    IN  IF s = NoStep
            THEN /\ cache' = c1
                 /\ last' = [NoOp EXCEPT !.op = "click", !.early = TRUE,
                                          !.valid = validateVisibleStep]
                 /\ UNCHANGED <<alert, stepDisplay, contentDisplay, summary, marker,
                                fallback, pendingAdd>>
        ELSE IF ~validateVisibleStep
            THEN \E R \in SUBSET Poked(s) :
                   LET al == [f \in Fields |-> IF f \in R THEN "shown" ELSE alert[f]]
                       heard == Poked(s) # {} /\ fieldListeners[s] > 0
                       u1 == IF heard THEN removeValidationErrorIn(al, s, StepUI(s))
                                      ELSE StepUI(s)
                       r == showValidationErrorIn(al, s, u1)
                   IN  /\ alert' = al
                       /\ SetStepUI(s, r.ui)
                       /\ contentDisplay' = IF r.flex /\ s \in L.content
                              THEN [contentDisplay EXCEPT ![s] = "flex"]
                              ELSE contentDisplay
                       /\ stepDisplay' = IF r.flex /\ s \notin L.content
                              THEN [stepDisplay EXCEPT ![s] = "flex"]
                              ELSE stepDisplay
                       /\ ObserverReacts(c1, r.flex /\ s \notin L.content)
                       /\ last' = [NoOp EXCEPT !.op = "click", !.step = s,
                                      !.prevented = TRUE, !.stopped = TRUE,
                                      !.threw = r.threw]
            ELSE /\ SetStepUI(s, removeValidationErrorIn(alert, s, StepUI(s)))
                 /\ cache' = c1
                 /\ last' = [NoOp EXCEPT !.op = "click", !.step = s, !.valid = TRUE]
                 /\ UNCHANGED <<alert, stepDisplay, contentDisplay, pendingAdd>>

\* the user clicks a Next / Submit button
NavigationClick(t) ==
    /\ Quiet
    /\ t \notin navBare
    /\ \/ t \in Steps /\ t \in L.nav /\ stepDisplay[t] # "none"
       \/ t = NoStep /\ L.navOutside
    /\ handleNextButtonClick(t)
    /\ UNCHANGED <<layout, value, checked, stepOpaque, bar, fieldListeners,
                   pendingObs, managerVars, pageVars>>
    /\ UNCHANGED auxVars

ValuesOf(f) ==
    CASE F(f).type = "tel" -> TelValues
      [] F(f).tag = "textarea" -> AreaValues
      [] IsEmailLike(f) -> MailValues
      [] OTHER -> TextValues

\* the combined handler addFieldListeners attached to the fields of step s,
\* run after the field state changed: removeValidationError on the step
\* captured at attachment, then validateVisibleStep
FieldListener(s) ==
    IF fieldListeners[s] > 0
        THEN /\ SetStepUI(s, checkAndRemoveGiven(RemovalBlocked(alert, s)', s, StepUI(s)))
             /\ last' = [NoOp EXCEPT !.op = "field", !.step = s,
                                      !.valid = validateVisibleStep']
        ELSE /\ last' = NoOp
             /\ UNCHANGED <<summary, marker, fallback>>

\* the user edits or leaves a field: the value changes (or stays) and
\* input / change / blur are dispatched
UserInput(f, v) ==
    /\ Quiet
    /\ ~IsGroupType(f) /\ v \in ValuesOf(f)
    /\ stepDisplay[F(f).step] # "none"
    /\ value' = [value EXCEPT ![f] = v]
    /\ UNCHANGED <<layout, checked, alert, stepDisplay, stepOpaque, contentDisplay,
                   bar, fieldListeners, cache, pendingAdd, pendingObs,
                   managerVars, pageVars>>
    /\ FieldListener(F(f).step)
    /\ UNCHANGED auxVars

\* the user toggles a checkbox: change is dispatched
UserToggle(f) ==
    /\ Quiet
    /\ IsGroupType(f)
    /\ stepDisplay[F(f).step] # "none"
    /\ checked' = [checked EXCEPT ![f] = ~@]
    /\ UNCHANGED <<layout, value, alert, stepDisplay, stepOpaque, contentDisplay,
                   bar, fieldListeners, cache, pendingAdd, pendingObs,
                   managerVars, pageVars>>
    /\ FieldListener(F(f).step)
    /\ UNCHANGED auxVars

\* the 100 ms timer of the structural observer: addFieldListeners
\* addFieldListeners: every field of the cached visible step gets one more
\* combined handler per event type (the removeEventListener call names
\* validator.validateVisibleStep, which was never attached); the count kept
\* per step stops at cap
addFieldListeners(c, cap) ==
    [s \in Steps |->
        IF s = c.step /\ FieldsOf(s) # {}
            THEN Min(fieldListeners[s] + 1, cap)
            ELSE fieldListeners[s]]

TimerAddFieldListeners ==
    /\ Quiet
    /\ pendingAdd > 0
    /\ pendingAdd' = pendingAdd - 1
    /\ cache' = getVisibleStep(cache, stepDisplay)
    /\ fieldListeners' = addFieldListeners(cache', MaxListeners)
    /\ UNCHANGED <<layout, value, checked, alert, stepDisplay, stepOpaque,
                   contentDisplay, summary, marker, fallback, bar, pendingObs, last,
                   managerVars, pageVars>>
    /\ UNCHANGED auxVars

\* the 50 ms timer the structural observer arms on a mutation the widget made
\* (a step's style, an alert added or removed): validator.validateVisibleStep()
\* runs before the next event arrives
TimerValidate ==
    /\ Quiet
    /\ last = NoOp
    /\ last' = [NoOp EXCEPT !.op = "validate", !.valid = validateVisibleStep]
    /\ UNCHANGED <<layout, value, checked, alert, stepDisplay, stepOpaque,
                   contentDisplay, summary, marker, fallback, bar, fieldListeners,
                   cache, pendingAdd, pendingObs, managerVars, pageVars>>
    /\ UNCHANGED auxVars

\* the widget advances or goes back: it shows step s and hides the others
\* through their inline display
WidgetShowStep(s) ==
    /\ Quiet
    /\ stepDisplay[s] = "none"
    /\ stepDisplay' = [t \in Steps |-> IF t = s THEN "block" ELSE "none"]
    /\ stepOpaque' = [t \in Steps |-> TRUE]
    /\ ObserverReacts(cache, TRUE)
    /\ last' = NoOp
    /\ UNCHANGED <<layout, value, checked, alert, contentDisplay, summary, marker,
                   fallback, bar, fieldListeners, pendingObs, managerVars, pageVars>>
    /\ UNCHANGED auxVars

\* the widget hides a step (for instance while it submits)
WidgetHideStep(s) ==
    /\ Quiet
    /\ stepDisplay[s] # "none"
    /\ stepDisplay' = [stepDisplay EXCEPT ![s] = "none"]
    /\ stepOpaque' = [stepOpaque EXCEPT ![s] = TRUE]
    /\ ObserverReacts(cache, TRUE)
    /\ last' = NoOp
    /\ UNCHANGED <<layout, value, checked, alert, contentDisplay, summary, marker,
                   fallback, bar, fieldListeners, pendingObs, managerVars, pageVars>>
    /\ UNCHANGED auxVars

\* the widget fades the displayed step out or in through its inline opacity
WidgetFadeStep(s) ==
    /\ Quiet
    /\ stepDisplay[s] # "none"
    /\ stepOpaque' = [stepOpaque EXCEPT ![s] = ~@]
    /\ stepDisplay' = stepDisplay
    /\ ObserverReacts(cache, TRUE)
    /\ last' = NoOp
    /\ UNCHANGED <<layout, value, checked, alert, contentDisplay, summary, marker,
                   fallback, bar, fieldListeners, pendingObs, managerVars, pageVars>>
    /\ UNCHANGED auxVars

\* the widget shows, empties or removes its own error alert of a field of a
\* displayed step; a group has one alert, under its container; the widget is
\* taken to leave an emptied alert element only under required fields
WidgetSetAlert(f, a) ==
    /\ Quiet
    /\ a # alert[f]
    /\ findFieldForError(f) = f
    /\ a = "blank" => F(f).required
    /\ stepDisplay[F(f).step] # "none"
    /\ alert' = [alert EXCEPT ![f] = a]
    /\ last' = NoOp
    /\ UNCHANGED <<layout, value, checked, stepDisplay, stepOpaque, contentDisplay,
                   summary, marker, fallback, bar, fieldListeners, cache, pendingAdd,
                   pendingObs, managerVars, pageVars>>
    /\ UNCHANGED auxVars

Next ==
    \/ \E t \in Steps \cup {NoStep} : NavigationClick(t)
    \/ \E f \in Fields : \E v \in AllValues : UserInput(f, v)
    \/ \E f \in Fields : UserToggle(f)
    \/ TimerAddFieldListeners
    \/ TimerValidate
    \/ \E s \in Steps : WidgetShowStep(s)
    \/ \E s \in Steps : WidgetHideStep(s)
    \/ \E s \in Steps : WidgetFadeStep(s)
    \/ \E f \in Fields : \E a \in {"none", "shown", "blank"} : WidgetSetAlert(f, a)

Spec == Init /\ [][Next]_vars

(***************************************************************************)
(* Progress bars (specification SpecBar): form 1 right after its set-up,   *)
(* with the retry sweeps still pending and bars the widget may render late. *)
(***************************************************************************)
InitBar ==
    /\ layout \in {l \in 1..Len(Layouts) : Layouts[l].bars # {}}
    /\ FreshForm
    /\ stepDisplay = [s \in Steps |-> IF s = 1 THEN "block" ELSE "none"]
    /\ contentDisplay = [s \in Steps |-> "block"]
    /\ bar \in [Steps -> {WidgetBar, NoBar}]
    /\ \A s \in Steps : s \notin L.bars => bar[s] = NoBar
    /\ timers = setupAllForms(NoManager, {1}).timers
    /\ SetUpPage(setupAllForms(NoManager, {1}))
    /\ AuxIdle

SetBars(st) ==
    /\ bar' = st.bar
    /\ fallback' = st.fb
    /\ contentDisplay' = st.cdisp
    /\ stepDisplay' = st.sdisp
    /\ pendingObs' = Inserted(st)
    /\ ObserverReacts(cache, st.sdisp # stepDisplay)

\* a retry sweep of setupProgressBarRepositioning over the bars of form 1:
\* the 100 ms one takes every bar, the 1000 ms one the bars without the
\* marker, and repositionProgressBar skips the marked ones itself
TimerSweep(n) ==
    /\ Quiet
    /\ \E tm \in timers :
          /\ tm.name = n /\ tm.form = 1
          /\ n = "sweep1000" => \A o \in timers : ~(o.name = "sweep100" /\ o.form = 1)
          /\ timers' = timers \ {tm}
    /\ LET st == RepositionFrom(SweepState, 1)
       IN  /\ SetBars(st)
           /\ last' = [NoOp EXCEPT !.op = "sweep", !.threw = st.threw]
    /\ UNCHANGED <<layout, value, checked, alert, stepOpaque, summary, marker,
                   fieldListeners, initializedForms, formCleanupMap, bundles,
                   listeners, observers, pageObservers, setupCalls, stylesRemoved,
                   pageVars>>
    /\ UNCHANGED auxVars

\* the observers' callbacks for the bars the last task inserted: first the
\* form's progress-bar observer, then init's positioning observer
DeliverBarMutations ==
    /\ ~Quiet
    /\ LET a == IF \E o \in observers : o.form = 1 /\ o.kind = "progressBar"
                    THEN RepositionAdded(SweepState, pendingObs, 1) ELSE SweepState
           b == IF "positioning" \in pageObservers
                    THEN positionElementsImmediately([a EXCEPT !.threw = FALSE], 1)
                    ELSE a
       IN  /\ SetBars(b)
           /\ last' = [NoOp EXCEPT !.op = "deliver", !.threw = a.threw \/ b.threw]
    /\ UNCHANGED <<layout, value, checked, alert, stepOpaque, summary, marker,
                   fieldListeners, managerVars, pageVars>>
    /\ UNCHANGED auxVars

\* the widget renders a bar late
WidgetRenderBar(s) ==
    /\ Quiet
    /\ s \in L.bars /\ bar[s].pos = "absent"
    /\ bar' = [bar EXCEPT ![s] = WidgetBar]
    /\ pendingObs' = {s}
    /\ last' = NoOp
    /\ UNCHANGED <<layout, value, checked, alert, stepDisplay, stepOpaque,
                   contentDisplay, summary, marker, fallback, fieldListeners, cache,
                   pendingAdd, managerVars, pageVars>>
    /\ UNCHANGED auxVars

\* the widget puts a bar node the system has handled back where it renders it
WidgetReattachBar(s) ==
    /\ Quiet
    /\ bar[s].marked /\ bar[s].pos # "orig"
    /\ bar' = [bar EXCEPT ![s].pos = "orig"]
    /\ pendingObs' = {s}
    /\ last' = NoOp
    /\ UNCHANGED <<layout, value, checked, alert, stepDisplay, stepOpaque,
                   contentDisplay, summary, marker, fallback, fieldListeners, cache,
                   pendingAdd, managerVars, pageVars>>
    /\ UNCHANGED auxVars

\* toggleHasReplacementClasses(document): the class pair follows what the
\* step holds
toggleHasReplacementClasses(s) ==
    LET has == summary[s] # << >> \/ HasRepositionedBar(s)
    IN  [step |-> has, content |-> IF s \in L.content THEN has ELSE fallback[s].content]

\* the body of init(): the class sync and its observer, the style sweep,
\* positionElementsImmediately and, unless that raised, the positioning
\* observer and the deferred set-up of the forms
InitBody(m) ==
    LET st == positionElementsImmediately(
                  [SweepState EXCEPT !.fb = [s \in Steps |-> toggleHasReplacementClasses(s)]],
                  1)
        swept == removeHubSpotFormStyles(
                     [m EXCEPT !.pageObservers = @ \cup {"hasClass"}])
    IN  /\ SetManager(IF st.threw THEN swept
                      ELSE [swept EXCEPT !.pageObservers = @ \cup {"positioning"},
                                         !.timers = @ \cup {GlobalTimer("whenSafe")}])
        /\ bar' = st.bar
        /\ fallback' = st.fb
        /\ pendingObs' = Inserted(st)
        /\ last' = [NoOp EXCEPT !.op = "init", !.threw = st.threw]
        /\ UNCHANGED <<layout, value, checked, alert, stepDisplay, stepOpaque,
                       contentDisplay, summary, marker, fieldListeners, cache,
                       pendingAdd>>

\* the host page calls init()
HostInit ==
    /\ Quiet
    /\ InitBody(Manager)
    /\ hostCalled' = TRUE
    /\ UNCHANGED <<noAutoInit, readyState, forms>>
    /\ UNCHANGED auxVars

NextBar ==
    \/ \E n \in SetupTimers : TimerSweep(n)
    \/ DeliverBarMutations
    \/ \E s \in Steps : WidgetRenderBar(s)
    \/ \E s \in Steps : WidgetReattachBar(s)
    \/ HostInit
    \/ \E t \in Steps \cup {NoStep} : NavigationClick(t)

SpecBar == InitBar /\ [][NextBar]_vars

(***************************************************************************)
(* Module load and form set-up (specification SpecLife): the page while it *)
(* loads, with the widget inserting forms and the host page calling the    *)
(* public functions.  The forms hold no progress bar here.                 *)
(***************************************************************************)
InitLife ==
    /\ layout = 5
    /\ FreshForm
    /\ stepDisplay = [s \in Steps |-> IF s = 1 THEN "block" ELSE "none"]
    /\ contentDisplay = [s \in Steps |-> "block"]
    /\ bar = [s \in Steps |-> NoBar]
    /\ noAutoInit \in BOOLEAN
    /\ readyState = "loading"
    /\ forms \in {{}, {1}}
    /\ hostCalled = FALSE
    /\ initializedForms = {}
    /\ formCleanupMap = [f \in Forms |-> NoBundle]
    /\ bundles = << >>
    /\ listeners = {}
    /\ observers = {}
    /\ pageObservers = {}
    /\ timers = {}
    /\ setupCalls = [f \in Forms |-> 0]
    /\ stylesRemoved = FALSE
    /\ AuxIdle

\* every set-up the forms still need finds room for its bundle
RoomFor(n) == Len(bundles) + Cardinality(Forms \ initializedForms) + n <= MaxBundles

\* window fires DOMContentLoaded: the listener hubspot-forms.js registered
\* when it was loaded runs
DOMContentLoaded ==
    /\ readyState = "loading"
    /\ readyState' = "interactive"
    /\ SetManager(OnDOMContentLoaded(Manager, forms))
    /\ UNCHANGED <<gateVars, noAutoInit, forms, hostCalled>>
    /\ UNCHANGED auxVars

\* window fires load: the listener index.js registered unless the flag was set
WindowLoad ==
    /\ readyState = "interactive"
    /\ readyState' = "complete"
    /\ timers' = IF noAutoInit THEN timers ELSE timers \cup {GlobalTimer("autoInit")}
    /\ UNCHANGED <<gateVars, noAutoInit, forms, hostCalled,
                   initializedForms, formCleanupMap, bundles, listeners, observers,
                   pageObservers, setupCalls, stylesRemoved>>
    /\ UNCHANGED auxVars

\* initializeWithTwoPhases, 1000 ms after load
TimerAutoInit ==
    /\ GlobalTimer("autoInit") \in timers
    /\ SetManager([removeHubSpotFormStyles(Manager) EXCEPT
                      !.timers = (@ \ {GlobalTimer("autoInit")})
                                     \cup {GlobalTimer("twoPhase")}])
    /\ UNCHANGED <<gateVars, pageVars>>
    /\ UNCHANGED auxVars

\* phase 2 of initializeWithTwoPhases: init(), any exception swallowed
TimerTwoPhase ==
    /\ Quiet
    /\ GlobalTimer("twoPhase") \in timers
    /\ InitBody([Manager EXCEPT !.timers = @ \ {GlobalTimer("twoPhase")}])
    /\ fileConfig' = applyOptions(fileConfig, defaultOptions)
    /\ UNCHANGED pageVars
    /\ UNCHANGED <<styleDoc, styleObs, calc, env, navBare, areaDom,
                areaCounters>>

\* the callback of whenSafeToInitialize, once the document is complete
TimerWhenSafe ==
    /\ GlobalTimer("whenSafe") \in timers
    /\ readyState = "complete"
    /\ SetManager(WhenSafeCallback(
           [Manager EXCEPT !.timers = @ \ {GlobalTimer("whenSafe")}], forms))
    /\ UNCHANGED <<gateVars, pageVars>>
    /\ UNCHANGED auxVars

\* the 10 s timers that disconnect a document-level observer
DisconnectedBy(n) ==
    CASE n = "stylesOff" -> "styles"
      [] n = "retryOff" -> "retry"
      [] OTHER -> "dynamic"

TimerDisconnect(n) ==
    /\ GlobalTimer(n) \in timers
    /\ timers' = timers \ {GlobalTimer(n)}
    /\ pageObservers' = pageObservers \ {DisconnectedBy(n)}
    /\ UNCHANGED <<gateVars, pageVars, initializedForms, formCleanupMap, bundles,
                   listeners, observers, setupCalls, stylesRemoved>>
    /\ UNCHANGED auxVars

\* the widget inserts form node f; the document-level observers are told
WidgetInsertForm(f) ==
    /\ f \notin forms
    /\ forms' = forms \cup {f}
    /\ SetManager(OnFormAdded(Manager, forms', f))
    /\ UNCHANGED <<gateVars, noAutoInit, readyState, hostCalled>>
    /\ UNCHANGED auxVars

\* the widget takes form node f out of the document
WidgetRemoveForm(f) ==
    /\ f \in forms
    /\ forms' = forms \ {f}
    /\ UNCHANGED <<gateVars, managerVars, noAutoInit, readyState, hostCalled>>
    /\ UNCHANGED auxVars

\* the host page calls setupSingleForm(f)
HostSetupSingleForm(f) ==
    /\ setupCalls[f] < MaxCalls
    /\ SetManager(setupSingleForm(Manager, f))
    /\ hostCalled' = TRUE
    /\ UNCHANGED <<gateVars, noAutoInit, readyState, forms>>
    /\ UNCHANGED auxVars

\* the host page calls setupAllForms()
HostSetupAllForms ==
    /\ SetManager(setupAllForms(Manager, forms))
    /\ hostCalled' = TRUE
    /\ UNCHANGED <<gateVars, noAutoInit, readyState, forms>>
    /\ UNCHANGED auxVars

\* the host page calls createFormCleanup(f) itself
HostCreateFormCleanup(f) ==
    /\ RoomFor(1)
    /\ SetManager(createFormCleanup(Manager, f))
    /\ hostCalled' = TRUE
    /\ UNCHANGED <<gateVars, noAutoInit, readyState, forms>>
    /\ UNCHANGED auxVars

\* the host page calls getFormCleanup(f).destroy()
HostDestroy(f) ==
    /\ getFormCleanup(Manager, f) # NoBundle
    /\ SetManager(destroy(Manager, getFormCleanup(Manager, f)))
    /\ UNCHANGED <<gateVars, pageVars>>
    /\ UNCHANGED auxVars

NextLife ==
    \/ DOMContentLoaded
    \/ WindowLoad
    \/ TimerAutoInit
    \/ TimerTwoPhase
    \/ TimerWhenSafe
    \/ \E n \in {"stylesOff", "retryOff", "dynamicOff"} : TimerDisconnect(n)
    \/ \E f \in Forms : WidgetInsertForm(f)
    \/ \E f \in Forms : WidgetRemoveForm(f)
    \/ HostInit
    \/ \E f \in Forms : HostSetupSingleForm(f)
    \/ HostSetupAllForms
    \/ \E f \in Forms : HostCreateFormCleanup(f)
    \/ \E f \in Forms : HostDestroy(f)

SpecLife == InitLife /\ [][NextLife]_vars

(***************************************************************************)
(* removeHubSpotFormStyles, call by call (specification SpecStyles).  A    *)
(* style element of the widget is [id, nested]: added to the document by   *)
(* itself, or inside a subtree the widget added.  Each call has its own    *)
(* observer and 10 s timer: [connected, timer, queue], the queue holding   *)
(* the added nodes of the records not yet delivered.                       *)
(***************************************************************************)
StyleIds == 1..MaxStyles
StyleEls == [id : StyleIds, nested : BOOLEAN]

\* removeAllHubSpotStyles(): document.querySelectorAll('style[data-hsfc-id]')
\* and remove() on each
removeAllHubSpotStyles(doc) == {}

\* the observer callback that only takes the added nodes that are style
\* elements themselves
directMatchesOnly(doc, queue) == {e \in doc : e \notin queue \/ e.nested}

\* the observer callback over the added nodes of its records: a style
\* element is removed, and so is every style element inside an added subtree
styleObserverCallback(doc, queue) == {e \in doc : e \notin queue}

\* mutation observers are notified at the end of the task that changed the
\* document, before any other task runs
StyleQuiet == \A c \in 1..Len(styleObs) : styleObs[c].queue = {}

StyleRest ==
    UNCHANGED <<layout, value, checked, alert, stepDisplay, stepOpaque,
                contentDisplay, summary, marker, fallback, bar, fieldListeners,
                cache, pendingAdd, pendingObs, managerVars, pageVars, calc,
                fileConfig, env, navBare, areaDom,
                areaCounters>>

InitStyles ==
    /\ InitLife
    /\ noAutoInit = FALSE
    /\ forms = {}

\* a call of removeHubSpotFormStyles(): the sweep, a new observer, its timer
CallRemoveHubSpotFormStyles ==
    /\ StyleQuiet
    /\ Len(styleObs) < MaxStyleCalls
    /\ styleDoc' = removeAllHubSpotStyles(styleDoc)
    /\ styleObs' = Append(styleObs, [connected |-> TRUE, timer |-> TRUE, queue |-> {}])
    /\ last' = [NoOp EXCEPT !.op = "styleSweep"]
    /\ StyleRest

\* the widget injects a style element, by itself or within a subtree; every
\* connected observer gets the record
WidgetAddStyle(e) ==
    /\ \A d \in styleDoc : d.id # e.id
    /\ styleDoc' = styleDoc \cup {e}
    /\ styleObs' = [c \in 1..Len(styleObs) |->
                       IF styleObs[c].connected
                           THEN [styleObs[c] EXCEPT !.queue = @ \cup {e}]
                           ELSE styleObs[c]]
    /\ last' = NoOp
    /\ StyleRest

\* the records are delivered to the observers in the order they were made
DeliverStyleMutations(c) ==
    /\ styleObs[c].queue # {}
    /\ \A b \in 1..(c - 1) : styleObs[b].queue = {}
    /\ styleDoc' = styleObserverCallback(styleDoc, styleObs[c].queue)
    /\ styleObs' = [styleObs EXCEPT ![c].queue = {}]
    /\ last' = [NoOp EXCEPT !.op = "styleDeliver", !.step = c]
    /\ StyleRest

\* setTimeout(() => observer.disconnect(), OBSERVER_TIMEOUT_MS)
TimerStylesOff(c) ==
    /\ StyleQuiet
    /\ styleObs[c].timer
    /\ \A b \in 1..(c - 1) : ~styleObs[b].timer
    /\ styleObs' = [styleObs EXCEPT ![c].timer = FALSE, ![c].connected = FALSE]
    /\ last' = [NoOp EXCEPT !.op = "styleOff", !.step = c]
    /\ UNCHANGED styleDoc
    /\ StyleRest

NextStyles ==
    \/ CallRemoveHubSpotFormStyles
    \/ \E e \in StyleEls : WidgetAddStyle(e)
    \/ \E c \in 1..Len(styleObs) : DeliverStyleMutations(c)
    \/ \E c \in 1..Len(styleObs) : TimerStylesOff(c)

SpecStyles == InitStyles /\ [][NextStyles]_vars

(***************************************************************************)
(* The validators' pure functions (specification SpecPure).  Each action   *)
(* applies one function to an input drawn from a bounded set and records   *)
(* the function, its argument and its result in calc.                      *)
(***************************************************************************)
MaxCounterLimit == 22
MaxCounterLength == 24

CounterLimits == (MaxCounterLimit - 1)..MaxCounterLimit
CounterLengths == 0..MaxCounterLength

PureRest ==
    UNCHANGED <<gateVars, managerVars, pageVars, styleDoc, styleObs, fileConfig, env,
                navBare, areaDom,
                areaCounters>>

InitPure == InitStyles

\* `${currentLength}/${characterLimit} characters` and the single status class
updateCharacterCounter(currentLength, characterLimit) ==
    LET remaining == characterLimit - currentLength
    IN  [textContent |-> <<currentLength, "/", characterLimit, " characters">>,
         className |-> IF remaining = 0 THEN "danger"
                       ELSE IF remaining <= 20 THEN "warning"
                       ELSE "default"]

\* an input event on a textarea holding currentLength characters
ApplyUpdateCharacterCounter ==
    /\ \E currentLength \in CounterLengths : \E characterLimit \in CounterLimits :
          calc' = [fn |-> "updateCharacterCounter",
                   arg |-> <<currentLength, characterLimit>>,
                   out |-> updateCharacterCounter(currentLength, characterLimit)]
    /\ PureRest

\* the selections of a file input: up to MaxFiles files, each a name and a
\* size in bytes around the two size limits in use
MaxFiles == 2

FileNames ==
    { <<"a", ".", "P", "D", "F">>,
      <<"a", ".", "e", "x", "e">>,
      <<"a", ".", "t", "x", "t", ".", "p", "n", "g">> }
FileSizes == {1024, 1025, DefaultMaxFileSize, DefaultMaxFileSize + 1}
Files == [name : FileNames, size : FileSizes]
Selections == UNION {[1..n -> Files] : n \in 0..MaxFiles}

\* file.name.split('.').pop().toLowerCase()
extensionOf(name) ==
    LET parts == Split(name, ".")
    IN  toLowerCase(parts[Len(parts)])

InList(list, x) == \E i \in 1..Len(list) : list[i] = x

\* the errors validateFile pushes for one file
fileErrors(file, i, config, e) ==
    (IF file.size > maxFileSize(config, e)
         THEN <<[file |-> i, kind |-> "size"]>> ELSE << >>)
    \o (IF ~InList(allowedExtensions(config, e), extensionOf(file.name))
            THEN <<[file |-> i, kind |-> "type"]>> ELSE << >>)

RECURSIVE errorsFrom(_, _, _, _)
errorsFrom(files, i, config, e) ==
    IF i > Len(files) THEN << >>
    ELSE fileErrors(files[i], i, config, e) \o errorsFrom(files, i + 1, config, e)

\* the mutant of validateFile that stops at the first file
validateFirstFile(files, config, e) ==
    IF Len(files) = 0 THEN [valid |-> TRUE, errors |-> << >>]
    ELSE LET errors == fileErrors(files[1], 1, config, e)
         IN  [valid |-> Len(errors) = 0, errors |-> errors]

\* FileUploadValidator.validateFile(fileInput)
validateFile(files, config, e) ==
    IF Len(files) = 0 THEN [valid |-> TRUE, errors |-> << >>]
    ELSE LET errors == errorsFrom(files, 1, config, e)
         IN  [valid |-> Len(errors) = 0, errors |-> errors]

\* set allowedExtensions(value) / set maxFileSize(value)
SetAllowedExtensions(v) ==
    /\ fileConfig' = [fileConfig EXCEPT !.allowedExtensions = v]
    /\ UNCHANGED <<gateVars, managerVars, pageVars, styleDoc, styleObs, calc, env,
                   navBare, areaDom,
                areaCounters>>

SetMaxFileSize(n) ==
    /\ fileConfig' = [fileConfig EXCEPT !.maxFileSize = n]
    /\ UNCHANGED <<gateVars, managerVars, pageVars, styleDoc, styleObs, calc, env,
                   navBare, areaDom,
                areaCounters>>

\* a change event on a file input holding the selection
ApplyValidateFile ==
    /\ \E files \in Selections :
          calc' = [fn |-> "validateFile",
                   arg |-> <<files, fileConfig, env>>,
                   out |-> validateFile(files, fileConfig, env)]
    /\ PureRest

NextPure ==
    \/ ApplyUpdateCharacterCounter
    \/ \E v \in HostExtensions : SetAllowedExtensions(v)
    \/ \E n \in HostSizes : SetMaxFileSize(n)
    \/ ApplyValidateFile

SpecPure == InitPure /\ [][NextPure]_vars

(***************************************************************************)
(* The upload settings while the module loads and initializes              *)
(* (specification SpecConfig): a page without forms, built with or without *)
(* the two environment settings, the host page calling init with or        *)
(* without options, and the getters being read.                            *)
(***************************************************************************)
EnvExtensions == {None, Some(<<" ", "P", "D", "F", ",", "t", "x", "t">>)}
EnvSizes == {None, Some(<<"5", "m", "b">>), Some(<<"3", "0", "0">>)}
Envs == [VITE_UPLOAD_ALLOWED_EXTENSIONS : EnvExtensions, VITE_UPLOAD_MAX_SIZE : EnvSizes]

HostOptions == [allowedExtensions : HostExtensions, maxFileSize : HostSizes]

InitConfig ==
    /\ layout = 5
    /\ FreshForm
    /\ stepDisplay = [s \in Steps |-> IF s = 1 THEN "block" ELSE "none"]
    /\ contentDisplay = [s \in Steps |-> "block"]
    /\ bar = [s \in Steps |-> NoBar]
    /\ noAutoInit = FALSE
    /\ readyState = "loading"
    /\ forms = {}
    /\ hostCalled = FALSE
    /\ initializedForms = {}
    /\ formCleanupMap = [f \in Forms |-> NoBundle]
    /\ bundles = << >>
    /\ listeners = {}
    /\ observers = {}
    /\ pageObservers = {}
    /\ timers = {}
    /\ setupCalls = [f \in Forms |-> 0]
    /\ stylesRemoved = FALSE
    /\ styleDoc = {} /\ styleObs = << >> /\ calc = NoCalc
    /\ fileConfig = NoConfig
    /\ env \in Envs
    /\ navBare = {}
    /\ areaDom = NoAreaDom /\ areaCounters = NoCounters

\* the host page calls init(options)
HostInitWith(options) ==
    /\ Quiet
    /\ InitBody(Manager)
    /\ hostCalled' = TRUE
    /\ fileConfig' = applyOptions(fileConfig, options)
    /\ UNCHANGED <<noAutoInit, readyState, forms>>
    /\ UNCHANGED <<styleDoc, styleObs, calc, env, navBare, areaDom,
                areaCounters>>

\* FileUploadValidator.allowedExtensions and .maxFileSize are read
ReadFileConfig ==
    /\ calc' = [fn |-> "fileConfig",
                arg |-> <<fileConfig, env>>,
                out |-> [allowedExtensions |-> allowedExtensions(fileConfig, env),
                         maxFileSize |-> maxFileSize(fileConfig, env)]]
    /\ PureRest

NextConfig ==
    \/ DOMContentLoaded
    \/ WindowLoad
    \/ TimerAutoInit
    \/ TimerTwoPhase
    \/ TimerWhenSafe
    \/ \E n \in {"stylesOff", "retryOff", "dynamicOff"} : TimerDisconnect(n)
    \/ \E options \in HostOptions : HostInitWith(options)
    \/ ReadFileConfig

SpecConfig == InitConfig /\ [][NextConfig]_vars

(***************************************************************************)
(* FieldValidator applied to the fields of a form (specification           *)
(* SpecFields): the user checks, unchecks and types, and the validator is  *)
(* called on a field with its step as the container.                       *)
(***************************************************************************)
TelInputs ==
    { Empty, <<"+">>, Code, Phone, <<"1">>, <<"1", "2", "3">>,
      <<"+", "1", "2", "3">>, <<"+", "1", "2", "3", "4">>, <<" ", "+", "1", " ">>,
      <<"1", "2", "3", "4">> }

FieldsRest ==
    UNCHANGED <<layout, alert, stepDisplay, stepOpaque, contentDisplay, summary,
                marker, fallback, bar, fieldListeners, cache, pendingAdd, pendingObs,
                last, managerVars, pageVars, styleDoc, styleObs, fileConfig, env,
                navBare, areaDom,
                areaCounters>>

InitFields ==
    /\ layout \in FieldLayouts
    /\ FreshForm
    /\ stepDisplay = [s \in Steps |-> IF s = 1 THEN "block" ELSE "none"]
    /\ contentDisplay = [s \in Steps |-> "block"]
    /\ bar = [s \in Steps |-> NoBar]
    /\ noAutoInit = TRUE
    /\ readyState = "loading"
    /\ forms = {1}
    /\ hostCalled = FALSE
    /\ initializedForms = {}
    /\ formCleanupMap = [f \in Forms |-> NoBundle]
    /\ bundles = << >>
    /\ listeners = {}
    /\ observers = {}
    /\ pageObservers = {}
    /\ timers = {}
    /\ setupCalls = [f \in Forms |-> 0]
    /\ stylesRemoved = FALSE
    /\ AuxIdle

\* the user checks or unchecks a checkbox or radio input
SetChecked(f) ==
    /\ IsGroupType(f)
    /\ checked' = [checked EXCEPT ![f] = ~@]
    /\ calc' = NoCalc
    /\ UNCHANGED value
    /\ FieldsRest

\* the user types into the telephone field
SetTelValue(f, v) ==
    /\ F(f).type = "tel"
    /\ value' = [value EXCEPT ![f] = v]
    /\ calc' = NoCalc
    /\ UNCHANGED checked
    /\ FieldsRest

\* FieldValidator.isFieldValid, isFieldInvalid and needsValidation called on
\* field f with its step as the container
ApplyFieldValidator(f) ==
    /\ calc' = [fn |-> "FieldValidator",
                arg |-> <<f, F(f).step>>,
                out |-> [isFieldValid |-> isFieldValid(f, F(f).step),
                         isFieldInvalid |-> isFieldInvalid(f, F(f).step),
                         needsValidation |-> needsValidation(f, F(f).step)]]
    /\ UNCHANGED <<value, checked>>
    /\ FieldsRest

NextFields ==
    \/ \E f \in Fields : SetChecked(f)
    \/ \E f \in Fields : \E v \in TelInputs : SetTelValue(f, v)
    \/ \E f \in Fields : ApplyFieldValidator(f)

SpecFields == InitFields /\ [][NextFields]_vars

(***************************************************************************)
(* Navigation buttons rendered after the set-up (specification SpecNav):   *)
(* the form of Spec, whose widget may replace a navigation row.            *)
(***************************************************************************)
NavLayouts == {1, 3, 4}

\* the places a non-back navigation button sits in
NavPlaces == {s \in Steps : s \in L.nav} \cup (IF L.navOutside THEN {NoStep} ELSE {})

InitNav ==
    /\ Init
    /\ layout \in NavLayouts

\* the widget replaces the navigation row at t: the new button is a new
\* node; the structural observer sees a childList record whose added node
\* holds no error alert and no field, and schedules nothing
WidgetRerenderNav(t) ==
    /\ Quiet
    /\ t \in NavPlaces \ navBare
    /\ navBare' = navBare \cup {t}
    /\ last' = NoOp
    /\ UNCHANGED <<layout, value, checked, alert, stepDisplay, stepOpaque,
                   contentDisplay, summary, marker, fallback, bar, fieldListeners,
                   cache, pendingAdd, pendingObs, managerVars, pageVars>>
    /\ UNCHANGED <<styleDoc, styleObs, calc, fileConfig, env, areaDom, areaCounters>>

\* the user clicks a navigation button that was rendered after the set-up:
\* no listener of the system is on it; last.valid is what validateVisibleStep
\* would have returned
BareNavigationClick(t) ==
    /\ Quiet
    /\ t \in navBare
    /\ t \in Steps => stepDisplay[t] # "none"
    /\ last' = [NoOp EXCEPT !.op = "bareClick",
                            !.step = IF t = NoStep THEN FindDisplayedFrom(stepDisplay, 1)
                                                   ELSE t,
                            !.valid = validateVisibleStep]
    /\ UNCHANGED <<layout, value, checked, alert, stepDisplay, stepOpaque,
                   contentDisplay, summary, marker, fallback, bar, fieldListeners,
                   cache, pendingAdd, pendingObs, managerVars, pageVars>>
    /\ UNCHANGED auxVars

NextNav ==
    \/ \E t \in Steps \cup {NoStep} : NavigationClick(t)
    \/ \E t \in Steps \cup {NoStep} : BareNavigationClick(t)
    \/ \E t \in Steps \cup {NoStep} : WidgetRerenderNav(t)
    \/ \E f \in Fields : \E v \in AllValues : UserInput(f, v)
    \/ \E f \in Fields : UserToggle(f)
    \/ \E s \in Steps : WidgetShowStep(s)
    \/ TimerAddFieldListeners

SpecNav == InitNav /\ [][NextNav]_vars

(***************************************************************************)
(* getFieldsWithErrors applied to the steps of a form (specification       *)
(* SpecErrors): the user checks and unchecks, the widget shows and removes *)
(* its alerts, and the list is built for a step.                           *)
(***************************************************************************)
InitErrors == InitFields

\* the widget shows or removes its own alert of a field or group
WidgetToggleAlert(f) ==
    /\ findFieldForError(f) = f
    /\ stepDisplay[F(f).step] # "none"
    /\ alert' = [alert EXCEPT ![f] = IF @ = "shown" THEN "none" ELSE "shown"]
    /\ calc' = NoCalc
    /\ UNCHANGED <<layout, value, checked, stepDisplay, stepOpaque, contentDisplay,
                   summary, marker, fallback, bar, fieldListeners, cache, pendingAdd,
                   pendingObs, last, managerVars, pageVars, styleDoc, styleObs,
                   fileConfig, env, navBare, areaDom,
                areaCounters>>

\* HubSpotFormValidator.getFieldsWithErrors(step)
ApplyGetFieldsWithErrors(s) ==
    /\ calc' = [fn |-> "getFieldsWithErrors", arg |-> <<s>>,
                out |-> getFieldsWithErrors(s)]
    /\ UNCHANGED <<value, checked>>
    /\ FieldsRest

NextErrors ==
    \/ \E f \in Fields : SetChecked(f)
    \/ \E f \in Fields : WidgetToggleAlert(f)
    \/ \E s \in Steps : ApplyGetFieldsWithErrors(s)

SpecErrors == InitErrors /\ [][NextErrors]_vars

(***************************************************************************)
(* The visible-step cache while the widget changes steps (specification    *)
(* SpecCache): the form of Spec, whose widget shows and hides steps through *)
(* their inline style or through a class.                                  *)
(***************************************************************************)
InitCache ==
    /\ Init
    /\ layout \in NavLayouts

\* the widget shows step s and hides the others by changing their class
\* attribute: the structural observer receives attribute records whose
\* attributeName is 'class', which no branch of its callback handles
WidgetShowStepByClass(s) ==
    /\ Quiet
    /\ stepDisplay[s] = "none"
    /\ stepDisplay' = [t \in Steps |-> IF t = s THEN "block" ELSE "none"]
    /\ stepOpaque' = [t \in Steps |-> TRUE]
    /\ last' = NoOp
    /\ UNCHANGED <<layout, value, checked, alert, contentDisplay, summary, marker,
                   fallback, bar, fieldListeners, cache, pendingAdd, pendingObs,
                   managerVars, pageVars>>
    /\ UNCHANGED auxVars

NextCache ==
    \/ \E t \in Steps \cup {NoStep} : NavigationClick(t)
    \/ \E f \in Fields : \E v \in AllValues : UserInput(f, v)
    \/ \E f \in Fields : UserToggle(f)
    \/ \E s \in Steps : WidgetShowStep(s)
    \/ \E s \in Steps : WidgetHideStep(s)
    \/ \E s \in Steps : WidgetShowStepByClass(s)
    \/ TimerAddFieldListeners

SpecCache == InitCache /\ [][NextCache]_vars

(***************************************************************************)
(* The field handlers under repeated re-attachment (specification          *)
(* SpecHandlers): the form of Spec with the handler count followed up to   *)
(* MaxHandlers.                                                            *)
(***************************************************************************)
HandlerLayouts == {1, 3}

InitHandlers ==
    /\ Init
    /\ layout \in HandlerLayouts

\* the structural observer saw the widget add nodes that hold fields (or
\* restyle a step): its 100 ms timer is armed
WidgetAddsFieldNodes ==
    /\ Quiet
    /\ pendingAdd < MaxPending
    /\ pendingAdd' = pendingAdd + 1
    /\ last' = NoOp
    /\ UNCHANGED <<layout, value, checked, alert, stepDisplay, stepOpaque,
                   contentDisplay, summary, marker, fallback, bar, fieldListeners,
                   cache, pendingObs, managerVars, pageVars>>
    /\ UNCHANGED auxVars

\* the timer's addFieldListeners call
TimerAddFieldListenersAgain ==
    /\ Quiet
    /\ pendingAdd > 0
    /\ pendingAdd' = pendingAdd - 1
    /\ cache' = getVisibleStep(cache, stepDisplay)
    /\ fieldListeners' = addFieldListeners(cache', MaxHandlers)
    /\ UNCHANGED <<layout, value, checked, alert, stepDisplay, stepOpaque,
                   contentDisplay, summary, marker, fallback, bar, pendingObs, last,
                   managerVars, pageVars>>
    /\ UNCHANGED auxVars

NextHandlers ==
    \/ \E f \in Fields : \E v \in AllValues : UserInput(f, v)
    \/ \E f \in Fields : UserToggle(f)
    \/ \E t \in Steps : NavigationClick(t)
    \/ WidgetAddsFieldNodes
    \/ TimerAddFieldListenersAgain

SpecHandlers == InitHandlers /\ [][NextHandlers]_vars

(***************************************************************************)
(* The widget's over-limit message of a textarea (specification            *)
(* SpecMessage).  The field container (.hsfc-FormField) holds the textarea *)
(* and its counter; the widget adds its message (.hsfc-ErrorAlert) as a    *)
(* child of the container, inside a wrapper element without that class, or *)
(* by inserting the whole container again with the message in it.  Each    *)
(* element has a parent and a text of its own; textContent is the text of  *)
(* the subtree.                                                            *)
(***************************************************************************)
MaxAreaLength == 5
MessageLimits == {2, 3, 4}

DomNodes == {"field", "area", "counter", "wrap", "msg"}
\* document order inside the container
DomOrder == <<"area", "counter", "wrap", "msg">>

NoText == [kind |-> "none", limit |-> 0, overBy |-> 0]
CountText == [kind |-> "count", limit |-> 0, overBy |-> 0]
\* the widget's "Please enter N characters or fewer"
LimitText(n) == [kind |-> "limit", limit |-> n, overBy |-> 0]
\* `Enter ${limit} characters or fewer. You are ${overBy} character(s) over
\* the limit.`
OverText(n, k) == [kind |-> "over", limit |-> n, overBy |-> k]

\* the container after setupSingleTextarea, without a message
FieldDom(len) ==
    [shape |-> "plain", length |-> len,
     parent |-> [n \in DomNodes |->
                    CASE n = "field" -> "body"
                      [] n \in {"area", "counter"} -> "field"
                      [] OTHER -> "none"],
     text |-> [n \in DomNodes |-> IF n = "counter" THEN CountText ELSE NoText],
     enhanced |-> {}]

Up(d, n) == IF n \in DomNodes THEN d.parent[n] ELSE "none"

\* m is n or a descendant of n (the tree is at most three levels deep)
InSubtree(d, m, n) ==
    \/ m = n
    \/ Up(d, m) = n
    \/ Up(d, Up(d, m)) = n
    \/ Up(d, Up(d, Up(d, m))) = n

Attached(d, n) == InSubtree(d, n, "body")

\* the text in element.textContent that /enter (\d+) characters? or fewer/i
\* matches first: in document order, the element's own text before its
\* descendants'
RECURSIVE FirstMatchFrom(_, _, _)
FirstMatchFrom(d, n, i) ==
    IF i > Len(DomOrder) THEN NoText
    ELSE IF /\ InSubtree(d, DomOrder[i], n)
            /\ d.text[DomOrder[i]].kind \in {"limit", "over"}
        THEN d.text[DomOrder[i]]
        ELSE FirstMatchFrom(d, n, i + 1)

FirstMatch(d, n) ==
    IF d.text[n].kind \in {"limit", "over"} THEN d.text[n]
    ELSE FirstMatchFrom(d, n, 1)

\* element.closest('.hsfc-FormField, .hs-form-field')?.querySelector('textarea')
\* finds the textarea
FindsTextarea(d, n) ==
    /\ InSubtree(d, n, "field")
    /\ InSubtree(d, "area", "field")

\* element.textContent = text: the children are removed, the element holds
\* the text, and data-hubspot-character-error is set on it
setTextContent(d, n, text) ==
    [d EXCEPT !.parent = [m \in DomNodes |-> IF d.parent[m] = n THEN "none" ELSE @[m]],
              !.text = [@ EXCEPT ![n] = text],
              !.enhanced = @ \cup {n}]

\* immediatelyMarkCharacterError(element); checkAndHideCharacterError has the
\* same body
immediatelyMarkCharacterError(d, n) ==
    LET match == FirstMatch(d, n)
        overBy == d.length - match.limit
    IN  IF match.kind # "none" /\ FindsTextarea(d, n) /\ overBy > 0
            THEN setTextContent(d, n, OverText(match.limit, overBy))
            ELSE d

checkAndHideCharacterError(d, n) == immediatelyMarkCharacterError(d, n)

\* the callback of setupErrorHidingObserver for the node the widget added
\* below the container; the textarea's data-character-limit is the limit the
\* widget's message names
ErrorHidingObserver(d, added, limit) ==
    IF added = "field" \/ d.length <= limit THEN d
    ELSE LET d1 == IF added = "msg" THEN checkAndHideCharacterError(d, added) ELSE d
         IN  IF added # "msg" /\ InSubtree(d1, "msg", added)
                 THEN checkAndHideCharacterError(d1, "msg")
                 ELSE d1

RECURSIVE MarkDescendants(_, _, _)
MarkDescendants(d, nodes, i) ==
    IF i > Len(nodes) THEN d
    ELSE MarkDescendants(immediatelyMarkCharacterError(d, nodes[i]), nodes, i + 1)

\* the callback of setupPreemptiveErrorObserver for the added node: the node
\* itself, then node.querySelectorAll('*') as it is after that
PreemptiveObserver(d, added) ==
    LET d1 == immediatelyMarkCharacterError(d, added)
        allDescendants == SelectSeq(DomOrder,
                              LAMBDA m : m # added /\ InSubtree(d1, m, added))
    IN  MarkDescendants(d1, allDescendants, 1)

\* both observers hear the insertion, in the order setupSingleTextarea
\* created them
ObserversHear(d, added, limit) ==
    PreemptiveObserver(ErrorHidingObserver(d, added, limit), added)

MessageRest ==
    UNCHANGED <<gateVars, managerVars, pageVars, styleDoc, styleObs, calc,
                fileConfig, env, navBare, areaCounters>>

InitMessage == InitStyles

\* setupSingleTextarea has run on the textarea of the container: the counter
\* follows it and the two observers are connected
TextareaSetUp(len) ==
    /\ areaDom.shape = "none"
    /\ areaDom' = FieldDom(len)
    /\ MessageRest

\* the widget validates the textarea and adds its message to the container
WidgetAddsMessage(limit) ==
    /\ areaDom.shape = "plain"
    /\ Attached(areaDom, "area") /\ ~Attached(areaDom, "msg")
    /\ LET d == [areaDom EXCEPT !.shape = "message",
                                !.parent["msg"] = "field",
                                !.text["msg"] = LimitText(limit)]
       IN  areaDom' = ObserversHear(d, "msg", limit)
    /\ MessageRest

\* the widget adds a wrapper element that holds its message
WidgetAddsWrappedMessage(limit) ==
    /\ areaDom.shape = "plain"
    /\ Attached(areaDom, "area") /\ ~Attached(areaDom, "msg")
    /\ LET d == [areaDom EXCEPT !.shape = "wrapped",
                                !.parent["wrap"] = "field",
                                !.parent["msg"] = "wrap",
                                !.text["msg"] = LimitText(limit)]
       IN  areaDom' = ObserversHear(d, "wrap", limit)
    /\ MessageRest

\* the widget renders the field again: the container is inserted with the
\* textarea, the counter and the message in it
WidgetRendersField(limit) ==
    /\ areaDom.shape = "plain"
    /\ Attached(areaDom, "area") /\ ~Attached(areaDom, "msg")
    /\ LET d == [areaDom EXCEPT !.shape = "rendered",
                                !.parent["msg"] = "field",
                                !.text["msg"] = LimitText(limit)]
       IN  areaDom' = ObserversHear(d, "field", limit)
    /\ MessageRest

\* the widget takes its message (and the wrapper) away again
WidgetRemovesMessage ==
    /\ areaDom.shape \notin {"none", "plain"}
    /\ Attached(areaDom, "area")
    /\ areaDom' = FieldDom(areaDom.length)
    /\ MessageRest

\* the textarea's value is changed, by the user or by the page
AreaValueChanges(len) ==
    /\ areaDom.shape # "none"
    /\ Attached(areaDom, "area")
    /\ len # areaDom.length
    /\ areaDom' = [areaDom EXCEPT !.length = len]
    /\ MessageRest

NextMessage ==
    \/ \E len \in 0..MaxAreaLength : TextareaSetUp(len)
    \/ \E limit \in MessageLimits : WidgetAddsMessage(limit)
    \/ \E limit \in MessageLimits : WidgetAddsWrappedMessage(limit)
    \/ \E limit \in MessageLimits : WidgetRendersField(limit)
    \/ WidgetRemovesMessage
    \/ \E len \in 0..MaxAreaLength : AreaValueChanges(len)

SpecMessage == InitMessage /\ [][NextMessage]_vars

(***************************************************************************)
(* The character counter of one textarea under repeated set-up             *)
(* (specification SpecCounter).  The textarea has an id or none; the clock *)
(* is Date.now() in milliseconds; following is the sequence of counters    *)
(* that follow the textarea in its parent, nearest first; bound holds, per *)
(* set-up call, the counter its listeners captured (0 for null).           *)
(***************************************************************************)
MaxSetups == 3
MaxNow == 3
MaxTyped == 2

FreshTextarea(hasId) ==
    [calls |-> 0, hasId |-> hasId, now |-> 0, length |-> 0,
     following |-> << >>, bound |-> << >>]

\* textarea.id || `textarea-${Date.now()}`: 0 stands for the id
CounterKey(hasId, t) == IF hasId THEN 0 ELSE t + 1

\* findCharacterCounter: the first counter in the parent whose
\* data-textarea-id is the key computed at time t; its number, or 0 for null
findCharacterCounter(following, hasId, t) ==
    LET hits == SelectSeq(following, LAMBDA k : k.key = CounterKey(hasId, t))
    IN  IF hits = << >> THEN 0 ELSE hits[1].no

\* createCharacterCounter at time t1, the new counter's key computed at t2
createCharacterCounter(c, t1, t2) ==
    LET existingCounter == findCharacterCounter(c.following, c.hasId, t1)
        kept == SelectSeq(c.following, LAMBDA k : k.no # existingCounter)
        counter == [no |-> c.calls + 1, key |-> CounterKey(c.hasId, t2),
                    shown |-> c.length]
    IN  [c EXCEPT !.following = <<counter>> \o kept]

\* setupSingleTextarea: createCharacterCounter, then addTextareaEventListeners
\* looking the counter up again at time t3
setupSingleTextarea(c, d1, d2) ==
    LET t1 == c.now
        t2 == t1 + d1
        t3 == t2 + d2
        created == createCharacterCounter(c, t1, t2)
    IN  [created EXCEPT !.calls = @ + 1, !.now = t3,
                        !.bound = Append(@, findCharacterCounter(created.following,
                                                                 c.hasId, t3))]

\* the input listeners of every set-up call: each updates the counter it
\* captured, if any
handleTextareaInput(c, len) ==
    [c EXCEPT !.length = len,
              !.following = [i \in 1..Len(@) |->
                  IF \E j \in 1..Len(c.bound) : c.bound[j] = @[i].no
                      THEN [@[i] EXCEPT !.shown = len]
                      ELSE @[i]]]

CounterRest ==
    UNCHANGED <<gateVars, managerVars, pageVars, styleDoc, styleObs, calc,
                fileConfig, env, navBare, areaDom>>

InitCounter == InitStyles

\* setupSingleTextarea(textarea, cleanup) is called; the clock may tick
\* between the three reads of Date.now()
CallSetupSingleTextarea(hasId, d1, d2) ==
    /\ areaCounters.calls < MaxSetups
    /\ areaCounters.calls > 0 => hasId = areaCounters.hasId
    /\ LET c == IF areaCounters.calls = 0 THEN FreshTextarea(hasId) ELSE areaCounters
       IN  /\ c.now + d1 + d2 <= MaxNow
           /\ areaCounters' = setupSingleTextarea(c, d1, d2)
    /\ CounterRest

MillisecondPasses ==
    /\ areaCounters.calls > 0
    /\ areaCounters.now < MaxNow
    /\ areaCounters' = [areaCounters EXCEPT !.now = @ + 1]
    /\ CounterRest

UserTypes(len) ==
    /\ areaCounters.calls > 0
    /\ len # areaCounters.length
    /\ areaCounters' = handleTextareaInput(areaCounters, len)
    /\ CounterRest

NextCounter ==
    \/ \E hasId \in BOOLEAN : \E d1, d2 \in {0, 1} :
          CallSetupSingleTextarea(hasId, d1, d2)
    \/ MillisecondPasses
    \/ \E len \in 0..MaxTyped : UserTypes(len)

SpecCounter == InitCounter /\ [][NextCounter]_vars

(***************************************************************************)
(* Properties of the validation gate (specification Spec).                 *)
(***************************************************************************)

\* the step a finished click or field event worked on
Handled == last.op \in {"click", "field"} /\ last.step # NoStep

\* a problem of one of the kinds showValidationError lists is detected in s
ProblemDetected(s) == getFieldsWithErrors(s) # << >>

\* C1 (as stated): whenever validateVisibleStep() is false at click time, the
\* click handler has called preventDefault and stopPropagation before it
\* returns, so the default action never proceeds on a failed validation.
C1_FailedClickPrevented ==
    (last.op = "click" /\ ~last.valid) => (last.prevented /\ last.stopped)

\* the click that shows the divergence: the button sits outside every step,
\* no step is displayed, the handler returned before validating
C1_FailOpenClick ==
    last.op = "click" /\ last.early /\ ~last.valid /\ ~last.prevented

\* the click-time condition of C2 for a button of step t
C2_Passes(t) ==
    /\ StepIsVisible(t)
    /\ \A f \in FieldsOf(t) : ~AlertVisible(f)
    /\ \A f \in FieldsOf(t) : F(f).required => isFieldValid(f, t)

\* C2 (as stated): a click in a step whose required fields all pass and that
\* shows no widget-native alert is not prevented and leaves no summary in
\* the step, also when an earlier summary is still displayed.
C2_PassingClickProceeds ==
    [][\A t \in Steps :
          (NavigationClick(t) /\ C2_Passes(t))
              => (~last'.prevented /\ summary'[t] = << >>)]_vars

\* a state C2 speaks about: every required field passes, no native alert is
\* shown, and the summary of an earlier failed click is still displayed
C2_StaleSummary ==
    \E t \in Steps : t \in L.nav /\ C2_Passes(t) /\ summary[t] # << >>

\* the step C3 is about: its only field is a required text field
C3_Step(s) ==
    /\ s \in L.nav /\ Cardinality(FieldsOf(s)) = 1
    /\ \A f \in FieldsOf(s) : F(f).required /\ F(f).type = "text"

\* C3 (as stated): a click in a step with one required, empty text field is
\* prevented and leaves one summary with one entry carrying the field's
\* resolved label.
C3_OneEntrySummary ==
    [][\A t \in Steps :
          (/\ NavigationClick(t) /\ C3_Step(t) /\ StepIsVisible(t)
           /\ \A f \in FieldsOf(t) : Trim(value[f]) = << >>)
              => (/\ last'.prevented
                  /\ Len(summary'[t]) = 1
                  /\ \A f \in FieldsOf(t) : summary'[t][1].label = ResolvedLabel(f))]_vars

\* the click on which C3 fails: the row of the field is wrapped, the
\* insertion of the summary raised and the step is left without a summary
C3_SummaryLost ==
    /\ last.op = "click" /\ last.prevented /\ last.threw
    /\ C3_Step(last.step) /\ summary[last.step] = << >>

C5_Visible == {s \in Steps : stepDisplay[s] # "none" /\ stepOpaque[s]}

C5_FirstVisible == CHOOSE s \in C5_Visible : \A t \in C5_Visible : s <= t

C5_ErrorShown(s) ==
    stepDisplay[s] # "none"
        /\ (summary[s] # << >> \/ \E f \in FieldsOf(s) : alert[f] = "shown")

C5_Expected ==
    IF C5_Visible = {} THEN FALSE
    ELSE IF C5_FirstVisible \notin L.nav THEN FALSE
    ELSE IF C5_ErrorShown(C5_FirstVisible) THEN FALSE
    ELSE \A f \in FieldsOf(C5_FirstVisible) :
             (F(f).required /\ findFieldForError(f) = f)
                 => isFieldValid(f, C5_FirstVisible)

\* C5: validateVisibleStep() is false without a visible step, without a
\* non-back navigation button in it, or with a visible non-empty error
\* element in it; otherwise it is true exactly when every required field
\* (first of each group) is valid; and the call changes nothing in the DOM.
C5_ValidateResult ==
    [][(last'.op = "validate" /\ last.op # "validate")
          => (last'.valid = C5_Expected /\ domVars' = domVars)]_vars

\* validateVisibleStep() ran alone and returned true for a step with a
\* required field
C5_ValidatedTrue ==
    /\ last.op = "validate" /\ last.valid
    /\ \E f \in Fields : F(f).required /\ StepIsVisible(F(f).step)

(***************************************************************************)
(* Form set-up and teardown (specification SpecLife)                        *)
(***************************************************************************)
OfForm(S, f) == {x \in S : x.form = f}

\* this step called setupSingleForm on form f, which was set up before
C6_RepeatedCall(f) == f \in initializedForms /\ setupCalls'[f] # setupCalls[f]

\* C6: a call of setupSingleForm on a form that is already in
\* initializedForms creates no listener, observer, timer or bundle for it and
\* leaves its registered bundle as it was; so all the listeners a form carries
\* were attached by one call
C6_SetupIdempotent ==
    /\ [][\A f \in Forms : C6_RepeatedCall(f) =>
             /\ OfForm(listeners', f) = OfForm(listeners, f)
             /\ OfForm(observers', f) = OfForm(observers, f)
             /\ OfForm(timers', f) = OfForm(timers, f)
             /\ formCleanupMap'[f] = formCleanupMap[f]
             /\ \A b \in 1..Len(bundles') :
                   bundles'[b].form = f => (b <= Len(bundles) /\ bundles'[b] = bundles[b])]_vars
    /\ [](\A f \in Forms : \A l \in OfForm(listeners, f) : \A k \in OfForm(listeners, f) :
             l.by = k.by)

C6_CalledAgain ==
    \E f \in initializedForms :
        /\ setupCalls[f] > 1
        /\ ~bundles[formCleanupMap[f]].aborted
        /\ OfForm(listeners, f) # {}

C8_DestroyReversesSetup ==
    \A b \in 1..Len(bundles) :
        bundles[b].aborted =>
            /\ \A l \in listeners : l.by # b
            /\ \A o \in observers : o.by # b

C8_FileListenerSurvives ==
    \E l \in listeners : l.kind = "file" /\ bundles[l.by].aborted

\* C9: with HUBSPOT_FORMS_NO_AUTO_INIT set and no call from the host page,
\* no form is passed to setupSingleForm, no observer is installed and no
\* style element is removed
C9_NoAutoInit ==
    (noAutoInit /\ ~hostCalled) =>
        /\ \A f \in Forms : setupCalls[f] = 0
        /\ initializedForms = {}
        /\ observers = {}
        /\ pageObservers = {}
        /\ ~stylesRemoved

C9_SetUpDespiteFlag ==
    noAutoInit /\ ~hostCalled /\ initializedForms # {} /\ stylesRemoved

(***************************************************************************)
(* Progress-bar repositioning (specification SpecBar)                      *)
(***************************************************************************)
\* this step ran repositioning code: a retry sweep, observer callbacks or init
C10_Repositioning == last'.op \in {"sweep", "deliver", "init"}

\* C10: no bar is moved more than once, and a repositioning step leaves a
\* bar that carries data-repositioned, and the step around it, as they were
C10_MovedAtMostOnce ==
    [][/\ \A s \in Steps : bar'[s].moves <= 1
       /\ C10_Repositioning =>
             \A s \in Steps : (BarInStep(bar[s]) /\ bar[s].marked) =>
                 /\ bar'[s] = bar[s]
                 /\ stepDisplay'[s] = stepDisplay[s]
                 /\ contentDisplay'[s] = contentDisplay[s]
                 /\ summary'[s] = summary[s]]_vars

C10_CalledOnMarkedBar ==
    /\ last.op = "deliver"
    /\ \E s \in Steps : BarInStep(bar[s]) /\ bar[s].marked /\ bar[s].moves = 1


\* where repositioning is meant to leave the bar of step s
C11_Expected(s) == IF HasFirstFormField(s) THEN "beforeField" ELSE "end"

\* C11: a bar that a step has just moved within its step sits immediately
\* before the first container that wraps a real input, or is the last child
\* of the step content when there is no such container (a bar placed right
\* after the summary is taken to sit there)
C11_BarBeforeFirstField ==
    [][\A s \in Steps :
          (bar'[s].moves > bar[s].moves /\ BarInStep(bar'[s])) =>
              bar'[s].pos \in {C11_Expected(s), "afterSummary"}]_vars

C11_BarFirstChild ==
    \E s \in Steps :
        /\ ~HasFirstFormField(s) /\ HasOtherChild(s)
        /\ bar[s].pos = "first" /\ bar[s].cls /\ last.op = "init"

C12_Present(s) == fallback[s].step /\ fallback[s].content

\* C12: after a click or a field event has been handled, the step carries
\* the fallback class pair iff it holds an error summary or a repositioned
\* progress bar
C12_ClassPairIffContent ==
    Handled =>
        (C12_Present(last.step) <=>
            (summary[last.step] # << >> \/ HasRepositionedBar(last.step)))

C12_SummaryWithoutPair ==
    /\ last.op = "click"
    /\ L.bars = {}
    /\ summary[last.step] # << >>
    /\ fallback[last.step] = NoClasses

(***************************************************************************)
(* The style sweep (specification SpecStyles)                              *)
(***************************************************************************)
\* C13: the document holds no style element with data-hsfc-id right after
\* the sweep of a removeHubSpotFormStyles call and right after each delivery
\* of records to a call's observer; once a call's timer has fired its
\* observer is disconnected, holds no record, and no style element leaves
\* the document except through a sweep or an observer whose timer is pending
C13_StylesRemovedInWindow ==
    /\ [](last.op \in {"styleSweep", "styleDeliver"} => styleDoc = {})
    /\ [](\A c \in 1..Len(styleObs) :
             ~styleObs[c].timer => (~styleObs[c].connected /\ styleObs[c].queue = {}))
    /\ [][(\E e \in styleDoc : e \notin styleDoc') =>
             \/ last'.op = "styleSweep"
             \/ last'.op = "styleDeliver" /\ styleObs[last'.step].timer]_vars

C13_DeliveredAfterFirstTimeout ==
    /\ last.op = "styleDeliver"
    /\ last.step > 1
    /\ ~styleObs[1].connected
    /\ styleObs[last.step].connected
    /\ styleDoc = {}

(***************************************************************************)
(* Forms inserted after init (specification SpecLife)                      *)
(***************************************************************************)
\* init() has run, the document is complete, the callback init handed to
\* whenSafeToInitialize has run and no deferred set-up is still pending
C14_InitDone ==
    /\ "positioning" \in pageObservers
    /\ readyState = "complete"
    /\ timers \cap {GlobalTimer("whenSafe"), GlobalTimer("autoInit"),
                     GlobalTimer("twoPhase")} = {}

\* C14: once init's deferred set-up has run on a loaded page, every form in
\* the document has been passed to setupSingleForm and set up, whenever the
\* widget inserted it, and no form carries the listeners of two set-ups
C14_InsertedFormsSetUp ==
    /\ C14_InitDone => forms \subseteq initializedForms
    /\ \A f \in Forms : \A l \in OfForm(listeners, f) : \A k \in OfForm(listeners, f) :
          l.by = k.by

C14_FormNeverSetUp ==
    /\ C14_InitDone
    /\ forms \ initializedForms # {}
    /\ pageObservers \cap {"global", "dynamic", "retry"} = {}

(***************************************************************************)
(* Properties of the validators' pure functions (specification SpecPure)   *)
(***************************************************************************)
\* C15: whenever the counter of a textarea with value length L and limit N is
\* updated, its text is "L/N characters" and its one status class is danger
\* iff L >= N, warning iff N-20 <= L < N, and default otherwise
C15_CounterTextAndClass ==
    calc.fn = "updateCharacterCounter" =>
        LET L0 == calc.arg[1]
            N0 == calc.arg[2]
        IN  /\ calc.out.textContent = <<L0, "/", N0, " characters">>
            /\ calc.out.className =
                   IF L0 >= N0 THEN "danger"
                   ELSE IF N0 - 20 <= L0 THEN "warning"
                   ELSE "default"

C15_OverLimitShowsWarning ==
    /\ calc.fn = "updateCharacterCounter"
    /\ calc.arg[1] > calc.arg[2]
    /\ calc.out.className = "warning"

(***************************************************************************)
(* The over-limit entry of the summary (specification Spec)                *)
(***************************************************************************)
C16_Contains(text, part) ==
    \E i \in 1..Len(text) : i + Len(part) - 1 <= Len(text)
                            /\ SubSeq(text, i, i + Len(part) - 1) = part

\* "You are K character(s) over the limit."
C16_Wording(K) ==
    <<"You are ", K, " character", IF K > 1 THEN "s" ELSE "", " over the limit.">>

\* C16: when a navigation click is blocked while a textarea of the step holds
\* more characters than its limit N, the rendered summary has an entry for the
\* textarea whose text states the overage K = L - N as "You are K character(s)
\* over the limit.", also when the entry was not taken from a widget message
C16_SummaryStatesOverage ==
    (last.op = "click" /\ last.prevented) =>
        \A f \in FieldsOf(last.step) :
            (F(f).tag = "textarea" /\ hasCharacterLimitError(f)) =>
                \E i \in 1..Len(summary[last.step]) :
                    LET e == summary[last.step][i]
                    IN  /\ e.field = f
                        /\ e.kind = "limit" =>
                              C16_Contains(getCharacterLimitErrorMessage(f),
                                  C16_Wording(Len(value[f]) - DeclaredLimit(f, DEFAULT_LIMIT)))

C16_OverageInOtherWords ==
    /\ last.op = "click" /\ last.prevented
    /\ \E f \in FieldsOf(last.step) : \E i \in 1..Len(summary[last.step]) :
          /\ F(f).tag = "textarea" /\ hasCharacterLimitError(f) /\ ~AlertVisible(f)
          /\ summary[last.step][i].field = f
          /\ summary[last.step][i].kind = "limit"
          /\ getCharacterLimitErrorMessage(f) =
                 ResolvedLabel(f) \o <<": Must be ", 3, " characters or less (currently ",
                                       1, " over)">>

(***************************************************************************)
(* Properties of the upload settings (specification SpecConfig)            *)
(***************************************************************************)
\* the lists and sizes the two environment settings of the builds stand for
C17_EnvList(text) == IF text = <<" ", "P", "D", "F", ",", "t", "x", "t">> THEN <<PDF, TXT>> ELSE << >>
C17_EnvSize(text) == IF text = <<"5", "m", "b">> THEN 5 * 1024 * 1024 ELSE 300

\* the module's automatic initialization has just run init, the host page
\* has called nothing, and the settings read are the current ones
C17_AfterAutoInitOnly ==
    /\ calc.fn = "fileConfig" /\ calc.arg = <<fileConfig, env>>
    /\ last.op = "init" /\ ~hostCalled

\* C17: allowedExtensions and maxFileSize each return the runtime override
\* when one was set, else the environment setting when present, else the
\* default (pdf, doc, docx, jpg, jpeg, png, gif, txt; 10 MiB); after the
\* automatic initialization with no options and no environment setting they
\* return the default list including txt and 10 MiB
C17_EffectiveUploadSettings ==
    calc.fn = "fileConfig" =>
        LET c == calc.arg[1]
            e == calc.arg[2]
        IN  /\ calc.out.allowedExtensions =
                   IF c.allowedExtensions # None THEN c.allowedExtensions[1]
                   ELSE IF e.VITE_UPLOAD_ALLOWED_EXTENSIONS # None
                       THEN C17_EnvList(e.VITE_UPLOAD_ALLOWED_EXTENSIONS[1])
                   ELSE <<PDF, DOC, DOCX, JPG, JPEG, PNG, GIF, TXT>>
            /\ calc.out.maxFileSize =
                   IF c.maxFileSize # 0 THEN c.maxFileSize
                   ELSE IF e.VITE_UPLOAD_MAX_SIZE # None
                       THEN C17_EnvSize(e.VITE_UPLOAD_MAX_SIZE[1])
                   ELSE 10485760
            /\ (C17_AfterAutoInitOnly /\ env = NoEnv) =>
                   /\ calc.out.allowedExtensions = <<PDF, DOC, DOCX, JPG, JPEG, PNG, GIF, TXT>>
                   /\ calc.out.maxFileSize = 10485760

C17_AutoInitDropsTxt ==
    /\ C17_AfterAutoInitOnly /\ env = NoEnv
    /\ \A i \in 1..Len(calc.out.allowedExtensions) : calc.out.allowedExtensions[i] # TXT
    /\ calc.out.maxFileSize = 10485760

(***************************************************************************)
(* Properties of validateFile (specification SpecPure)                     *)
(***************************************************************************)
\* the characters after the last dot of a name, lower-cased
C18_Extension(name) ==
    LET dot == CHOOSE i \in 1..Len(name) :
                   name[i] = "." /\ \A j \in (i + 1)..Len(name) : name[j] # "."
    IN  toLowerCase(SubSeq(name, dot + 1, Len(name)))

C18_Recorded(errors, i, kind) ==
    \E k \in 1..Len(errors) : errors[k] = [file |-> i, kind |-> kind]

C19_Group(f, s) ==
    {g \in FieldsOf(s) : F(g).type = F(f).type /\ F(g).name = F(f).name}

\* C19: for a checkbox or radio group of two or more inputs sharing a name in
\* the container, isFieldValid is the same for every member: true iff at
\* least one member is checked; for a checkbox alone under its name it is true
\* iff the checkbox is checked; isFieldInvalid and needsValidation are the
\* negation of isFieldValid
C19_GroupValidity ==
    calc.fn = "FieldValidator" =>
        LET f == calc.arg[1]
            s == calc.arg[2]
        IN  /\ (IsGroupType(f) /\ Cardinality(C19_Group(f, s)) >= 2) =>
                  /\ calc.out.isFieldValid <=> \E g \in C19_Group(f, s) : checked[g]
                  /\ \A g \in C19_Group(f, s) :
                        isFieldValid(g, s) <=> calc.out.isFieldValid
            /\ (F(f).type = "checkbox" /\ C19_Group(f, s) = {f}) =>
                  (calc.out.isFieldValid <=> checked[f])
            /\ calc.out.isFieldInvalid <=> ~calc.out.isFieldValid
            /\ calc.out.needsValidation <=> ~calc.out.isFieldValid

C19_SiblingChecked ==
    /\ calc.fn = "FieldValidator"
    /\ F(calc.arg[1]).type = "checkbox"
    /\ Cardinality(C19_Group(calc.arg[1], calc.arg[2])) = 2
    /\ ~checked[calc.arg[1]]
    /\ \E g \in C19_Group(calc.arg[1], calc.arg[2]) : checked[g]
    /\ calc.out.isFieldValid /\ ~calc.out.isFieldInvalid

\* an optional '+' followed by at most three digits and nothing else
C20_CountryCodeOnly(v) ==
    LET d == IF v # << >> /\ Head(v) = "+" THEN Tail(v) ELSE v
    IN  Len(d) <= 3 /\ \A i \in 1..Len(d) : IsDigit(d[i])

\* C20: a telephone field is judged valid iff its trimmed value is non-empty,
\* is not a bare '+', and is not an optional '+' followed by at most three
\* digits and nothing else
C20_TelValidity ==
    (calc.fn = "FieldValidator" /\ F(calc.arg[1]).type = "tel") =>
        LET v == Trim(value[calc.arg[1]])
        IN  calc.out.isFieldValid <=>
                (v # << >> /\ v # <<"+">> /\ ~C20_CountryCodeOnly(v))

C20_DigitsWithoutPlusValid ==
    /\ calc.fn = "FieldValidator" /\ F(calc.arg[1]).type = "tel"
    /\ value[calc.arg[1]] = <<"1", "2", "3">>
    /\ calc.out.isFieldValid

(***************************************************************************)
(* Removal of the error summary (specification Spec)                       *)
(***************************************************************************)
\* one of the three conditions of the claim holds in step s
C21_Blocked(s) ==
    \/ \E f \in FieldsOf(s) : AlertVisible(f)
    \/ \E f \in FieldsOf(s) : F(f).required /\ ~isFieldValid(f, s)
    \/ \E f \in FieldsOf(s) :
          F(f).tag = "textarea" /\ Len(value[f]) > DeclaredLimit(f, DEFAULT_LIMIT)

C22_EveryNavButtonHandled ==
    /\ \A t \in NavPlaces : t \notin navBare
    /\ last.op # "bareClick"

C22_UnvalidatedClick ==
    /\ 1 \in initializedForms
    /\ last.op = "bareClick" /\ last.step \in navBare
    /\ ~last.valid /\ ~last.prevented
    /\ summary[last.step] = << >>

(***************************************************************************)
(* Properties of getFieldsWithErrors (specification SpecErrors)            *)
(***************************************************************************)
\* C23: the list getFieldsWithErrors builds has no two entries for the same
\* field and no two entries for the same checkbox/radio group name, so its
\* length, the count of the summary heading, is the number of distinct
\* fields with a problem
C23_NoDuplicateEntries ==
    calc.fn = "getFieldsWithErrors" =>
        /\ \A i \in 1..Len(calc.out) : \A j \in 1..Len(calc.out) :
              i # j =>
                  /\ calc.out[i].field # calc.out[j].field
                  /\ IsGroupType(calc.out[i].field) =>
                         F(calc.out[i].field).name # F(calc.out[j].field).name
        /\ Len(calc.out) = Cardinality({calc.out[i].field : i \in 1..Len(calc.out)})

C23_GroupListedTwice ==
    /\ calc.fn = "getFieldsWithErrors"
    /\ \E i \in 1..Len(calc.out) : \E j \in 1..Len(calc.out) :
          /\ i < j
          /\ calc.out[i].field # calc.out[j].field
          /\ F(calc.out[i].field).type = "checkbox"
          /\ F(calc.out[i].field).name = F(calc.out[j].field).name
          /\ calc.out[j].kind = "format"

(***************************************************************************)
(* The visible-step cache (specification SpecCache)                        *)
(***************************************************************************)
\* a step in which getVisibleStep is read: addFieldListeners from its timer,
\* or the click handler of a button that sits outside every step
C24_Reads ==
    \/ pendingAdd' < pendingAdd
    \/ last'.op = "click" /\ L.navOutside /\ L.nav = {}

\* C24: every read of getVisibleStep from a click handler or from
\* addFieldListeners returns the step that is displayed at that moment,
\* however the widget hid the cached step and showed another one
C24_ReadsDisplayedStep ==
    [][C24_Reads => cache'.step = FindDisplayedFrom(stepDisplay, 1)]_vars

C24_ClickReadHiddenStep ==
    /\ last.op = "click" /\ L.navOutside /\ L.nav = {}
    /\ last.step # NoStep /\ last.step = cache.step
    /\ stepDisplay[last.step] = "none"
    /\ \E s \in Steps : stepDisplay[s] # "none"

(***************************************************************************)
(* The field handlers (specification SpecHandlers)                         *)
(***************************************************************************)
\* C25: whatever structural-observer triggers occurred, the fields of a step
\* carry one combined handler per event type (never two), so one input event
\* runs the re-check and the validation once
C25_OneHandlerPerEvent ==
    \A s \in Steps : fieldListeners[s] <= 1

C25_InputHeardTwice ==
    /\ last.op = "field"
    /\ fieldListeners[last.step] >= 2
    /\ stepDisplay[last.step] # "none"

(***************************************************************************)
(* The data-has-error-summary marker (specification Spec)                  *)
(***************************************************************************)
\* C26: after a navigation click or a field event (showValidationError,
\* checkAndRemoveErrorSummary) a step carries data-has-error-summary exactly
\* when it contains a summary; in particular the marker is gone when
\* showValidationError found no problem
C26_MarkerIffSummary ==
    last.op \in {"click", "field"} =>
        \A s \in Steps : marker[s] <=> summary[s] # << >>

C26_MarkerWithoutSummary ==
    /\ last.op = "click" /\ last.prevented /\ ~last.threw
    /\ last.step # NoStep
    /\ marker[last.step]
    /\ summary[last.step] = << >>

(***************************************************************************)
(* The steps' display under the system's operations (specification         *)
(* SpecBar, in which only the system writes a step's display)              *)
(***************************************************************************)
\* C27: no operation of the system changes which step is displayed: every
\* step that was hidden before the operation is hidden after it and every
\* displayed step stays displayed, also when the step has no
\* .hsfc-Step__Content and is used as the step content itself
C27_DisplayedStepsUnchanged ==
    [][\A s \in Steps : (stepDisplay'[s] = "none") <=> (stepDisplay[s] = "none")]_vars

C27_HiddenStepShown ==
    /\ \E s \in Steps \ L.content :
          /\ s # 1
          /\ bar[s].marked /\ BarInStep(bar[s])
          /\ stepDisplay[s] = "flex"
    /\ stepDisplay[1] # "none"

\* C28: a repositioning step (sweep, observer callbacks, init) completes
\* without an exception and every bar it took out of a step is attached
\* inside that step afterwards, also when the first input container is
\* nested below the step content
C28_BarNeverLost ==
    [][last'.op \in {"sweep", "deliver", "init"} =>
          /\ ~last'.threw
          /\ \A s \in Steps :
                (BarInStep(bar[s]) /\ bar'[s].moves > bar[s].moves) =>
                    BarInStep(bar'[s])]_vars

C28_BarDetachedAfterThrow ==
    /\ last.op \in {"sweep", "deliver", "init"}
    /\ last.threw
    /\ \E s \in L.nested :
          bar[s].pos = "detached" /\ bar[s].marked /\ bar[s].moves = 1

(***************************************************************************)
(* The over-limit message (specification SpecMessage)                      *)
(***************************************************************************)
\* C29: rewriting the widget's over-limit message changes the text of the
\* widget's message element and nothing else: the textarea, the counter, the
\* message element and any wrapper stay where they were and keep their own
\* text, whether the widget added the message itself, a wrapper around it or
\* the whole field container
C29_OnlyMessageTextChanges ==
    (areaDom.shape # "none" /\ areaDom.enhanced # {}) =>
        /\ areaDom.enhanced = {"msg"}
        /\ Attached(areaDom, "area") /\ Attached(areaDom, "counter")
        /\ Attached(areaDom, "msg")
        /\ \A n \in DomNodes \ {"msg"} : areaDom.text[n] = FieldDom(0).text[n]

C29_FieldEmptied ==
    /\ areaDom.shape = "rendered"
    /\ "field" \in areaDom.enhanced
    /\ areaDom.text["field"].kind = "over"
    /\ ~Attached(areaDom, "area") /\ ~Attached(areaDom, "counter")

(***************************************************************************)
(* The character counter (specification SpecCounter)                       *)
(***************************************************************************)
\* C30: after any number of setupSingleTextarea calls on one textarea, with
\* or without an id and whatever time passed between the calls, exactly one
\* counter follows the textarea, and listeners of the textarea update it
C30_OneCounterUpdated ==
    areaCounters.calls > 0 =>
        /\ Len(areaCounters.following) = 1
        /\ \E j \in 1..Len(areaCounters.bound) :
              areaCounters.bound[j] = areaCounters.following[1].no

C30_TwoCounters ==
    /\ areaCounters.calls = 2
    /\ ~areaCounters.hasId
    /\ Len(areaCounters.following) = 2
    /\ areaCounters.following[1].shown # areaCounters.following[2].shown
====
